---- MODULE Spec2Model ----
(***************************************************************************)
(* Model of @foundriesio/request (request-promise): the agent pool and the *)
(* connection profile of src/lib/agent.js, and the request / redirect      *)
(* pipeline of src/index.js, in their most recent (ES module) revision.    *)
(*                                                                         *)
(* JavaScript strings are sequences of one-character strings, so that      *)
(* template literals are real concatenations.  A JavaScript object is a    *)
(* function whose DOMAIN is the set of its own keys; reading a key that is *)
(* not there yields UNDEFINED.                                             *)
(***************************************************************************)
EXTENDS Naturals, Integers, Sequences, FiniteSets, TLC

\* cachedAgents  the module's pool: key -> [agent, keepAlive, lastUsed]
\* allocated     the http(s).Agent objects constructed so far; an agent's
\*               identity is its index
\* now           Date.now()
\* reqAgent      per call (or profile): its RequestAgent
\* callState     "idle", "ready" (a profile made by createAgent directly),
\*               "pending" (a transport request is in flight), "receiving"
\*               (its response is arriving), "resolved", "rejected",
\*               "thrown"
\* callUrl       _inner's url argument, parsed
\* followed      _inner's followed argument
\* sent          the transport requests issued for the call, in order
\* outgoing      per request of sent: the body given to it, how far the
\*               body's write got, and how often req.end() was called
\* received      the responses the transport delivered to the call, in order
\* result        the value the call's promise settled with (or threw)
\* resolvedFor   history: the protocol, hostname and port for which the
\*               profile's agent was last looked up in the pool
VARIABLES cachedAgents, allocated, now, reqAgent, callState, callUrl, followed, sent, outgoing, received, result, resolvedFor

vars == <<cachedAgents, allocated, now, reqAgent, callState, callUrl, followed, sent, outgoing, received, result, resolvedFor>>

-----------------------------------------------------------------------------
(* Bounds of the model.                                                    *)

\* Date.now() takes values in 0..MaxTime.
MaxTime == 1

\* The server answers at most MaxServed responses to one call.
MaxServed == 3

-----------------------------------------------------------------------------
(* Strings.                                                                *)

HTTP == <<"h", "t", "t", "p">>
HTTPS == <<"h", "t", "t", "p", "s">>
FTP == <<"f", "t", "p">>
LOCALHOST == <<"l", "o", "c", "a", "l", "h", "o", "s", "t">>
EXAMPLE == <<"e", "x", "a", "m", "p", "l", "e", ".", "n", "e", "t">>
UNDEFINED == <<"u", "n", "d", "e", "f", "i", "n", "e", "d">>

\* A prefix test that compares lengths only.
StartsWithLength(s, prefix) == Len(s) >= Len(prefix)

\* String.prototype.startsWith
StartsWith(s, prefix) == Len(s) >= Len(prefix) /\ SubSeq(s, 1, Len(prefix)) = prefix

DigitChar == <<"0", "1", "2", "3", "4", "5", "6", "7", "8", "9">>

\* The decimal text of a number, as a template literal renders it.
RECURSIVE NumberToString(_)
NumberToString(n) == IF n < 10 THEN <<DigitChar[n + 1]>> ELSE NumberToString(n \div 10) \o <<DigitChar[(n % 10) + 1]>>

DigitValue(c) == CHOOSE d \in 0..9 : DigitChar[d + 1] = c

\* parseInt(s, 10) of a string of digits; -1 stands for NaN (no digits).
RECURSIVE ParseDigits(_, _)
ParseDigits(s, acc) == IF s = <<>> THEN acc ELSE ParseDigits(Tail(s), 10 * acc + DigitValue(Head(s)))

NaN == -1

parseInt(s) == IF s = <<>> THEN NaN ELSE ParseDigits(s, 0)

\* A port held by httpOptions is a number (create, and the defaults) or the
\* URL's port string (update).
NumPort(n) == [num |-> n]
StrPort(s) == [str |-> s]
PortText(p) == IF "num" \in DOMAIN p THEN NumberToString(p.num) ELSE p.str
PortNumber(p) == IF "num" \in DOMAIN p THEN p.num ELSE parseInt(p.str)

\* `${x}` of a property that may be missing from the object o.
Field(o, k) == IF k \in DOMAIN o THEN o[k] ELSE UNDEFINED

\* o[k] = v on a JavaScript object.
Put(o, k, v) == [x \in (DOMAIN o) \cup {k} |-> IF x = k THEN v ELSE o[x]]

\* Object.assign(target, source)
Assign(target, source) == [x \in (DOMAIN target) \cup (DOMAIN source) |-> IF x \in DOMAIN source THEN source[x] ELSE target[x]]

-----------------------------------------------------------------------------
(* URLs.  A URI string is given by its parts as written; new url.URL()     *)
(* yields protocol, hostname, port (a string, empty when it is the         *)
(* scheme's default), pathname and search.                                 *)

DefaultPortOf(scheme) == IF scheme = HTTPS THEN <<"4", "4", "3">> ELSE IF scheme = HTTP THEN <<"8", "0">> ELSE <<>>

\* new url.URL(uri) of an absolute URI.
ParseURL(uri) == [protocol |-> uri.scheme \o <<":">>, hostname |-> uri.host, port |-> IF uri.port = DefaultPortOf(uri.scheme) THEN <<>> ELSE uri.port, pathname |-> IF uri.path = <<>> THEN <<"/">> ELSE uri.path, search |-> uri.search]

\* new url.URL(target, base): an absolute target replaces everything, a
\* relative one (an absolute path) inherits protocol, hostname and port.
ResolveURL(target, base) == IF target.scheme # <<>> THEN ParseURL(target) ELSE [protocol |-> base.protocol, hostname |-> base.hostname, port |-> base.port, pathname |-> IF target.path = <<>> THEN base.pathname ELSE target.path, search |-> target.search]

\* A replace that collapses the leading pair of '/' only.
normalizeLeading(path) == IF Len(path) >= 2 /\ path[1] = "/" /\ path[2] = "/" THEN Tail(path) ELSE path

\* path.replace(/\/{2,}/g, '/')
RECURSIVE normalize(_)
normalize(path) == IF Len(path) < 2 THEN path ELSE IF path[1] = "/" /\ path[2] = "/" THEN normalize(Tail(path)) ELSE <<path[1]>> \o normalize(Tail(path))

-----------------------------------------------------------------------------
(* lib/agent.js: the agent pool.                                           *)

defaultMaxRedirects == 5
maximumRedirects == 15

\* httpOptions.agent = false: no pooled agent.  Constructed agents are the
\* positive indices of `allocated`.
NoAgent == 0

\* The valid http(s).Agent options and the type each is of.
validAgentsOptions == [keepAlive |-> "Boolean", keepAliveMsecs |-> "Number", maxSockets |-> "Number", maxFreeSockets |-> "Number", rejectUnauthorized |-> "Boolean", secureProtocol |-> "String"]

\* Object.entries(agentOptions) lists the keys in insertion order: the
\* constructor's, then secureProtocol when setAgentOptions added it.
EntriesOrder == <<"keepAlive", "keepAliveMsecs", "maxFreeSockets", "maxSockets", "rejectUnauthorized", "secureProtocol">>

KeyText(k) == CASE k = "keepAlive" -> <<"k", "e", "e", "p", "A", "l", "i", "v", "e">> [] k = "keepAliveMsecs" -> <<"k", "e", "e", "p", "A", "l", "i", "v", "e", "M", "s", "e", "c", "s">> [] k = "maxFreeSockets" -> <<"m", "a", "x", "F", "r", "e", "e", "S", "o", "c", "k", "e", "t", "s">> [] k = "maxSockets" -> <<"m", "a", "x", "S", "o", "c", "k", "e", "t", "s">> [] k = "rejectUnauthorized" -> <<"r", "e", "j", "e", "c", "t", "U", "n", "a", "u", "t", "h", "o", "r", "i", "z", "e", "d">> [] OTHER -> <<"s", "e", "c", "u", "r", "e", "P", "r", "o", "t", "o", "c", "o", "l">>

\* `${value}` of an agent option.
ValueText(k, v) == CASE validAgentsOptions[k] = "Boolean" -> (IF v THEN <<"t", "r", "u", "e">> ELSE <<"f", "a", "l", "s", "e">>) [] validAgentsOptions[k] = "Number" -> NumberToString(v) [] OTHER -> v

toHashStr(accumulator, key, value) == accumulator \o KeyText(key) \o ValueText(key, value)

\* Object.entries(options).reduce(toHashStr, init)
RECURSIVE ReduceEntries(_, _, _)
ReduceEntries(options, i, accumulator) == IF i > Len(EntriesOrder) THEN accumulator ELSE ReduceEntries(options, i + 1, IF EntriesOrder[i] \in DOMAIN options THEN toHashStr(accumulator, EntriesOrder[i], options[EntriesOrder[i]]) ELSE accumulator)

\* crypto.createHash('sha1').update(s).digest('hex'): distinct inputs give
\* distinct digests.
sha1(s) == [sha1 |-> s]

\* A key that leaves the port out.
optionsToHashNoPort(options, httpOptions, protocol) == sha1(protocol \o Field(httpOptions, "host"))

\* The reduce returns a new string and its result is dropped: toHash, a
\* string, is what was built before it.  httpOptions.host is read, the
\* profile stores hostname.
optionsToHash(options, httpOptions, protocol) == LET toHash == protocol \o Field(httpOptions, "host") \o <<":">> \o PortText(httpOptions.port) \o <<"-">> dropped == ReduceEntries(options, 1, toHash) IN sha1(toHash)

\* Object.entries(options): the [key, value] pairs in insertion order.
ObjectEntries(options) == LET keys == SelectSeq(EntriesOrder, LAMBDA k : k \in DOMAIN options) IN [i \in 1..Len(keys) |-> <<keys[i], options[keys[i]]>>]

\* entries.reduce(toHashStr, accumulator)
RECURSIVE reduce(_, _)
reduce(entries, accumulator) == IF entries = <<>> THEN accumulator ELSE reduce(Tail(entries), toHashStr(accumulator, Head(entries)[1], Head(entries)[2]))

\* A key that hashes what the reduce returns.
optionsToHashReduced(entries, httpOptions, protocol) == sha1(reduce(entries, protocol \o Field(httpOptions, "host") \o <<":">> \o PortText(httpOptions.port) \o <<"-">>))

\* optionsToHash of an options object whose Object.entries are `entries`,
\* in whatever order its keys were inserted.
optionsToHashEntries(entries, httpOptions, protocol) == LET toHash == protocol \o Field(httpOptions, "host") \o <<":">> \o PortText(httpOptions.port) \o <<"-">> dropped == reduce(entries, toHash) IN sha1(toHash)

\* A lookup that never finds an entry: every call constructs an agent and
\* stores it under the key.
getOrCreateAgentAlwaysNew(pool, heap, agentOptions, httpOptions, secure, t) == LET key == optionsToHash(agentOptions, httpOptions, IF secure THEN HTTPS ELSE HTTP) IN [agent |-> Len(heap) + 1, heap |-> Append(heap, [secure |-> secure, options |-> agentOptions]), pool |-> Put(pool, key, [agent |-> Len(heap) + 1, keepAlive |-> agentOptions.keepAlive, lastUsed |-> t])]

\* A pool of one entry: an insertion evicts what was there.
getOrCreateAgentEvicting(pool, heap, agentOptions, httpOptions, secure, t) == LET key == optionsToHash(agentOptions, httpOptions, IF secure THEN HTTPS ELSE HTTP) IN IF key \notin DOMAIN pool THEN [agent |-> Len(heap) + 1, heap |-> Append(heap, [secure |-> secure, options |-> agentOptions]), pool |-> Put([k \in {} |-> 0], key, [agent |-> Len(heap) + 1, keepAlive |-> agentOptions.keepAlive, lastUsed |-> t])] ELSE [agent |-> pool[key].agent, heap |-> heap, pool |-> [pool EXCEPT ![key].lastUsed = t]]

\* getOrCreateAgent on the pool `pool` and the constructed agents `heap` at
\* time t: the agent returned, the pool and the agents after the call.
getOrCreateAgent(pool, heap, agentOptions, httpOptions, secure, t) == LET key == optionsToHash(agentOptions, httpOptions, IF secure THEN HTTPS ELSE HTTP) IN IF key \notin DOMAIN pool THEN [agent |-> Len(heap) + 1, heap |-> Append(heap, [secure |-> secure, options |-> agentOptions]), pool |-> Put(pool, key, [agent |-> Len(heap) + 1, keepAlive |-> agentOptions.keepAlive, lastUsed |-> t])] ELSE [agent |-> pool[key].agent, heap |-> heap, pool |-> [pool EXCEPT ![key].lastUsed = t]]

-----------------------------------------------------------------------------
(* lib/agent.js: the connection profile (RequestAgent).                    *)

\* An options argument: its kind (a plain object, or an array, a number, a
\* string) and its own properties.
isObject(options) == options.kind = "object"
Has(options, k) == k \in DOMAIN options.own

\* new RequestAgent()
RequestAgent == [http |-> "undefined", httpOptions |-> [method |-> "GET", agent |-> NoAgent, headers |-> [h \in {"Accept-Encoding"} |-> "gzip, deflate, identity"]], agentOptions |-> [keepAlive |-> TRUE, keepAliveMsecs |-> 1000, maxFreeSockets |-> 256, maxSockets |-> 2048, rejectUnauthorized |-> TRUE], followRedirects |-> TRUE, maxRedirects |-> defaultMaxRedirects, newAgent |-> FALSE]

\* A JavaScript value given for an option: a number, a string or null.
JSNumber(n) == [num |-> n]
JSString(s) == [str |-> s]
JSNull == [null |-> TRUE]

IsDigits(s) == \A i \in 1..Len(s) : \E d \in 1..10 : DigitChar[d] = s[i]

\* Number(value): the number itself; 0 of null; of a string, 0 when it is
\* empty, its value when it is decimal digits, NaN otherwise.
\* Number(undefined) is NaN.
NotANumber == [nan |-> TRUE, num |-> 0]
Number(value) == IF "num" \in DOMAIN value THEN [nan |-> FALSE, num |-> value.num] ELSE IF "null" \in DOMAIN value THEN [nan |-> FALSE, num |-> 0] ELSE IF IsDigits(value.str) THEN [nan |-> FALSE, num |-> ParseDigits(value.str, 0)] ELSE NotANumber

\* RequestAgent.prototype.setOptions
setOptions(self, options) == LET maxRedirects == IF Has(options, "maxRedirects") THEN Number(options.own.maxRedirects) ELSE NotANumber IN [self EXCEPT !.newAgent = Has(options, "newAgent") /\ options.own.newAgent, !.followRedirects = IF Has(options, "followRedirects") THEN options.own.followRedirects ELSE @, !.maxRedirects = IF ~maxRedirects.nan THEN (IF maxRedirects.num >= maximumRedirects THEN maximumRedirects ELSE maxRedirects.num) ELSE @]

\* A setAgentOptions that copies every key of the options.
setAgentOptionsCopyingAll(self, options) == [self EXCEPT !.agentOptions = Assign(@, options.own)]

\* RequestAgent.prototype.setAgentOptions
setAgentOptions(self, options) == [self EXCEPT !.agentOptions = [k \in (DOMAIN @) \cup ((DOMAIN validAgentsOptions) \cap (DOMAIN options.own)) |-> IF k \in DOMAIN options.own THEN options.own[k] ELSE @[k]]]

\* A setHTTPOptions that takes the caller's headers in place of its own.
setHTTPOptionsReplacingHeaders(self, uri, options) == LET reqURL == ParseURL(uri) port == parseInt(reqURL.port) h1 == Put(Put(Put(Put(self.httpOptions, "hostname", reqURL.hostname), "path", normalize(reqURL.pathname \o reqURL.search)), "port", IF port = NaN THEN (IF StartsWith(reqURL.protocol, HTTPS) THEN NumPort(443) ELSE NumPort(80)) ELSE NumPort(port)), "protocol", reqURL.protocol) h2 == IF Has(options, "method") THEN Put(h1, "method", options.own.method) ELSE h1 h3 == IF Has(options, "headers") THEN Put(h2, "headers", options.own.headers) ELSE h2 h4 == IF Has(options, "ca") THEN Put(h3, "ca", options.own.ca) ELSE h3 IN [self EXCEPT !.httpOptions = h4]

\* A setHTTPOptions that leaves the method alone.
setHTTPOptionsWithoutMethod(self, uri, options) == LET reqURL == ParseURL(uri) port == parseInt(reqURL.port) h1 == Put(Put(Put(Put(self.httpOptions, "hostname", reqURL.hostname), "path", normalize(reqURL.pathname \o reqURL.search)), "port", IF port = NaN THEN (IF StartsWith(reqURL.protocol, HTTPS) THEN NumPort(443) ELSE NumPort(80)) ELSE NumPort(port)), "protocol", reqURL.protocol) h2 == h1 h3 == IF Has(options, "headers") THEN Put(h2, "headers", Assign(h2.headers, options.own.headers)) ELSE h2 h4 == IF Has(options, "ca") THEN Put(h3, "ca", options.own.ca) ELSE h3 IN [self EXCEPT !.httpOptions = h4]

\* RequestAgent.prototype.setHTTPOptions, for a URI that new url.URL accepts.
setHTTPOptions(self, uri, options) == LET reqURL == ParseURL(uri) port == parseInt(reqURL.port) h1 == Put(Put(Put(Put(self.httpOptions, "hostname", reqURL.hostname), "path", normalize(reqURL.pathname \o reqURL.search)), "port", IF port = NaN THEN (IF StartsWith(reqURL.protocol, HTTPS) THEN NumPort(443) ELSE NumPort(80)) ELSE NumPort(port)), "protocol", reqURL.protocol) h2 == IF Has(options, "method") THEN Put(h1, "method", options.own.method) ELSE h1 h3 == IF Has(options, "headers") THEN Put(h2, "headers", Assign(h2.headers, options.own.headers)) ELSE h2 h4 == IF Has(options, "ca") THEN Put(h3, "ca", options.own.ca) ELSE h3 IN [self EXCEPT !.httpOptions = h4]

\* The text a URI string starts with.
UriText(uri) == IF uri.scheme = <<>> THEN uri.path ELSE uri.scheme \o <<":", "/", "/">> \o uri.host

\* new url.URL(uri) throws a TypeError on a URI without a host.
InvalidURL(uri) == uri.scheme = <<>> \/ uri.host = <<>>

\* A createAgent that asks the pool for an agent before the URI is parsed:
\* an unparsable URI leaves an entry behind.
createAgentPoolFirst(pool, heap, uri, options, t) == IF ~isObject(options) THEN [threw |-> "HTTPError", message |-> "options parameter must be an object", agent |-> RequestAgent, pool |-> pool, heap |-> heap] ELSE IF ~StartsWith(UriText(uri), HTTP) THEN [threw |-> "HTTPError", message |-> "Unsupported protocol", agent |-> RequestAgent, pool |-> pool, heap |-> heap] ELSE IF InvalidURL(uri) THEN [threw |-> "TypeError", message |-> "Invalid URL", agent |-> RequestAgent, pool |-> getOrCreateAgent(pool, heap, RequestAgent.agentOptions, [port |-> NumPort(80)], FALSE, t).pool, heap |-> getOrCreateAgent(pool, heap, RequestAgent.agentOptions, [port |-> NumPort(80)], FALSE, t).heap] ELSE LET agent == setAgentOptions(setHTTPOptions(setOptions(RequestAgent, options), uri, options), options) secure == StartsWith(agent.httpOptions.protocol, HTTPS) got == getOrCreateAgent(pool, heap, agent.agentOptions, agent.httpOptions, secure, t) IN IF ~agent.newAgent THEN [threw |-> "no", message |-> "", agent |-> [agent EXCEPT !.httpOptions.agent = got.agent, !.http = IF secure THEN "https" ELSE "http"], pool |-> got.pool, heap |-> got.heap] ELSE [threw |-> "no", message |-> "", agent |-> [agent EXCEPT !.http = IF secure THEN "https" ELSE "http"], pool |-> pool, heap |-> heap]

\* createAgent(uri, options) on the pool and the constructed agents at time
\* t: whether it threw (and what), else the profile; the pool and the
\* agents after the call.
createAgent(pool, heap, uri, options, t) == IF ~isObject(options) THEN [threw |-> "HTTPError", message |-> "options parameter must be an object", agent |-> RequestAgent, pool |-> pool, heap |-> heap] ELSE IF ~StartsWith(UriText(uri), HTTP) THEN [threw |-> "HTTPError", message |-> "Unsupported protocol", agent |-> RequestAgent, pool |-> pool, heap |-> heap] ELSE IF InvalidURL(uri) THEN [threw |-> "TypeError", message |-> "Invalid URL", agent |-> RequestAgent, pool |-> pool, heap |-> heap] ELSE LET agent == setAgentOptions(setHTTPOptions(setOptions(RequestAgent, options), uri, options), options) secure == StartsWith(agent.httpOptions.protocol, HTTPS) got == getOrCreateAgent(pool, heap, agent.agentOptions, agent.httpOptions, secure, t) IN IF ~agent.newAgent THEN [threw |-> "no", message |-> "", agent |-> [agent EXCEPT !.httpOptions.agent = got.agent, !.http = IF secure THEN "https" ELSE "http"], pool |-> got.pool, heap |-> got.heap] ELSE [threw |-> "no", message |-> "", agent |-> [agent EXCEPT !.http = IF secure THEN "https" ELSE "http"], pool |-> pool, heap |-> heap]

\* A Location taken as it is, not resolved against the URL it came from.
toURLsUnresolved(oldUrl, newUrl) == <<oldUrl, ParseURL(newUrl)>>

\* A Location resolved against the host of the original request, which is
\* localhost for every call made here, whatever hop it came from.
toURLsFromOrigin(oldUrl, newUrl) == <<oldUrl, ResolveURL(newUrl, [oldUrl EXCEPT !.hostname = LOCALHOST])>>

\* RequestAgent.prototype.toURLs(oldUrl, newUrl): oldUrl is a parsed URL (or
\* the text of one), newUrl a Location resolved against it.
toURLs(oldUrl, newUrl) == <<oldUrl, ResolveURL(newUrl, oldUrl)>>

\* update re-resolves the agent when protocol or hostname changed.
CrossOrigin(oldURL, newURL) == oldURL.protocol # newURL.protocol \/ oldURL.hostname # newURL.hostname

\* An update that goes to the pool whatever newAgent says.
updateIgnoringNewAgent(self, pool, heap, oldURL, newURL, t) == LET h1 == Put(Put(Put(Put(self.httpOptions, "hostname", newURL.hostname), "path", normalize(newURL.pathname \o newURL.search)), "protocol", newURL.protocol), "port", IF newURL.port = <<>> THEN (IF StartsWith(newURL.protocol, HTTPS) THEN NumPort(443) ELSE NumPort(80)) ELSE StrPort(newURL.port)) secure == StartsWith(newURL.protocol, HTTPS) got == getOrCreateAgent(pool, heap, self.agentOptions, h1, secure, t) IN IF CrossOrigin(oldURL, newURL) THEN [agent |-> [self EXCEPT !.httpOptions = [h1 EXCEPT !.agent = got.agent], !.http = IF secure THEN "https" ELSE "http"], pool |-> got.pool, heap |-> got.heap] ELSE [agent |-> [self EXCEPT !.httpOptions = h1], pool |-> pool, heap |-> heap]

\* An update that takes the port of the URL as it is, empty or not.
updateWithoutDefaultPort(self, pool, heap, oldURL, newURL, t) == LET h1 == Put(Put(Put(Put(self.httpOptions, "hostname", newURL.hostname), "path", normalize(newURL.pathname \o newURL.search)), "protocol", newURL.protocol), "port", StrPort(newURL.port)) secure == StartsWith(newURL.protocol, HTTPS) got == getOrCreateAgent(pool, heap, self.agentOptions, h1, secure, t) IN IF CrossOrigin(oldURL, newURL) THEN (IF self.newAgent THEN [agent |-> [self EXCEPT !.httpOptions = [h1 EXCEPT !.agent = NoAgent], !.http = IF secure THEN "https" ELSE "http"], pool |-> pool, heap |-> heap] ELSE [agent |-> [self EXCEPT !.httpOptions = [h1 EXCEPT !.agent = got.agent], !.http = IF secure THEN "https" ELSE "http"], pool |-> got.pool, heap |-> got.heap]) ELSE [agent |-> [self EXCEPT !.httpOptions = h1], pool |-> pool, heap |-> heap]

\* An update that leaves the transport module as create set it.
updateKeepingModule(self, pool, heap, oldURL, newURL, t) == LET h1 == Put(Put(Put(Put(self.httpOptions, "hostname", newURL.hostname), "path", normalize(newURL.pathname \o newURL.search)), "protocol", newURL.protocol), "port", IF newURL.port = <<>> THEN (IF StartsWith(newURL.protocol, HTTPS) THEN NumPort(443) ELSE NumPort(80)) ELSE StrPort(newURL.port)) secure == StartsWith(newURL.protocol, HTTPS) got == getOrCreateAgent(pool, heap, self.agentOptions, h1, secure, t) IN IF CrossOrigin(oldURL, newURL) THEN (IF self.newAgent THEN [agent |-> [self EXCEPT !.httpOptions = [h1 EXCEPT !.agent = NoAgent]], pool |-> pool, heap |-> heap] ELSE [agent |-> [self EXCEPT !.httpOptions = [h1 EXCEPT !.agent = got.agent]], pool |-> got.pool, heap |-> got.heap]) ELSE [agent |-> [self EXCEPT !.httpOptions = h1], pool |-> pool, heap |-> heap]

\* An update that goes back to the constructor's headers when it leaves the
\* origin.
updateDroppingHeaders(self, pool, heap, oldURL, newURL, t) == LET h1 == Put(Put(Put(Put(self.httpOptions, "hostname", newURL.hostname), "path", normalize(newURL.pathname \o newURL.search)), "protocol", newURL.protocol), "port", IF newURL.port = <<>> THEN (IF StartsWith(newURL.protocol, HTTPS) THEN NumPort(443) ELSE NumPort(80)) ELSE StrPort(newURL.port)) h2 == [h1 EXCEPT !.headers = RequestAgent.httpOptions.headers] secure == StartsWith(newURL.protocol, HTTPS) got == getOrCreateAgent(pool, heap, self.agentOptions, h2, secure, t) IN IF CrossOrigin(oldURL, newURL) THEN (IF self.newAgent THEN [agent |-> [self EXCEPT !.httpOptions = [h2 EXCEPT !.agent = NoAgent], !.http = IF secure THEN "https" ELSE "http"], pool |-> pool, heap |-> heap] ELSE [agent |-> [self EXCEPT !.httpOptions = [h2 EXCEPT !.agent = got.agent], !.http = IF secure THEN "https" ELSE "http"], pool |-> got.pool, heap |-> got.heap]) ELSE [agent |-> [self EXCEPT !.httpOptions = h1], pool |-> pool, heap |-> heap]

\* RequestAgent.prototype.update(oldURL, newURL): the profile, the pool and
\* the agents after the call.  An empty port string is falsy.
update(self, pool, heap, oldURL, newURL, t) == LET h1 == Put(Put(Put(Put(self.httpOptions, "hostname", newURL.hostname), "path", normalize(newURL.pathname \o newURL.search)), "protocol", newURL.protocol), "port", IF newURL.port = <<>> THEN (IF StartsWith(newURL.protocol, HTTPS) THEN NumPort(443) ELSE NumPort(80)) ELSE StrPort(newURL.port)) secure == StartsWith(newURL.protocol, HTTPS) got == getOrCreateAgent(pool, heap, self.agentOptions, h1, secure, t) IN IF CrossOrigin(oldURL, newURL) THEN (IF self.newAgent THEN [agent |-> [self EXCEPT !.httpOptions = [h1 EXCEPT !.agent = NoAgent], !.http = IF secure THEN "https" ELSE "http"], pool |-> pool, heap |-> heap] ELSE [agent |-> [self EXCEPT !.httpOptions = [h1 EXCEPT !.agent = got.agent], !.http = IF secure THEN "https" ELSE "http"], pool |-> got.pool, heap |-> got.heap]) ELSE [agent |-> [self EXCEPT !.httpOptions = h1], pool |-> pool, heap |-> heap]

-----------------------------------------------------------------------------
(* index.js: the request executor and the GET redirect driver.             *)

\* hasHeader(value, headers): value.toLowerCase() is an own key of headers.
hasHeader(value, headers) == value \in DOMAIN headers

\* The value a promise settles with, or an error thrown.
Value(class, statusCode, message, headers) ==
    [class |-> class, statusCode |-> statusCode, message |-> message, headers |-> headers,
     location |-> IF class = "HTTPRedirect" /\ "location" \in DOMAIN headers THEN <<headers.location>> ELSE <<>>]

NoHeaders == [h \in {"connection"} |-> "keep-alive"]
Nothing == Value("none", 0, "", NoHeaders)
Undefined == Value("undefined", 0, "", NoHeaders)

\* Buffer.concat(data) of the chunks the 'data' events pushed.
RECURSIVE concat(_)
concat(data) == IF data = <<>> THEN <<>> ELSE Head(data) \o concat(Tail(data))

\* zlib's two codecs, byte by byte: the coded form of a payload byte, and the
\* filters that give the payload back. A filter emits one chunk for each
\* chunk piped into it; the bodies served are well-formed for their codec.
Bytes == {"o", "k", "n", "t"}
gzip(byte) == "g" \o byte
deflate(byte) == "d" \o byte
createGunzip(chunk) == [i \in 1..Len(chunk) |-> CHOOSE byte \in Bytes : gzip(byte) = chunk[i]]
createInflate(chunk) == [i \in 1..Len(chunk) |-> CHOOSE byte \in Bytes : deflate(byte) = chunk[i]]

\* An executor that listens to the response itself whatever its encoding.
outputUndecoded(response) == response.data

\* The chunks of the 'data' events of `output`: the response piped through
\* the filter its 'content-encoding' header selects, or the response itself.
output(response) ==
    LET encoding == IF "content-encoding" \in DOMAIN response.headers THEN response.headers["content-encoding"] ELSE "undefined"
    IN CASE encoding = "gzip" -> [j \in 1..Len(response.data) |-> createGunzip(response.data[j])]
         [] encoding = "deflate" -> [j \in 1..Len(response.data) |-> createInflate(response.data[j])]
         [] OTHER -> response.data

\* A classification that has no redirect class: 3xx is an error.
handleResponseNoRedirect(response) ==
    LET status == response.statusCode
        classified == IF status >= 200 /\ status < 300 THEN Value("HTTPResponse", status, "OK", response.headers)
                      ELSE Value("HTTPError", status, "Remote request error", response.headers)
    IN Put(classified, "body", concat(output(response)))

\* handleResponse, when the body has ended: the result passed to resolve,
\* or to reject when it is an HTTPError.
handleResponse(response) ==
    LET status == response.statusCode
        classified == IF status >= 200 /\ status < 300 THEN Value("HTTPResponse", status, "OK", response.headers)
                      ELSE IF status >= 300 /\ status <= 310 THEN Value("HTTPRedirect", status, "Redirect", response.headers)
                      ELSE Value("HTTPError", status, "Remote request error", response.headers)
    IN Put(classified, "body", concat(output(response)))

\* What _request hands to http.request(options) of the module `http`.
Request(agent) ==
    [http |-> agent.http, method |-> agent.httpOptions.method, hostname |-> agent.httpOptions.hostname,
     port |-> PortNumber(agent.httpOptions.port), path |-> agent.httpOptions.path, agent |-> agent.httpOptions.agent]

\* What a profile's agent was resolved for: protocol, hostname and port.
TargetOf(agent) == <<agent.httpOptions.protocol, agent.httpOptions.hostname, PortNumber(agent.httpOptions.port)>>

-----------------------------------------------------------------------------
(* Inputs.                                                                 *)

Calls == {1, 2}

Uri(scheme, host, port, path, search) == [scheme |-> scheme, host |-> host, port |-> port, path |-> path, search |-> search]

Port8443 == <<"8", "4", "4", "3">>
PathFoo == <<"/", "f", "/", "/", "b">>
PathNext == <<"/", "n">>

\* https://localhost/f//b, https://example.net, http://localhost/,
\* https://localhost:8443/, ftp://localhost, https://localhost/
UriLocalTls == Uri(HTTPS, LOCALHOST, <<>>, PathFoo, <<>>)
UriExampleTls == Uri(HTTPS, EXAMPLE, <<>>, <<>>, <<>>)
UriLocal == Uri(HTTP, LOCALHOST, <<>>, <<"/">>, <<>>)
UriLocalTls8443 == Uri(HTTPS, LOCALHOST, Port8443, <<"/">>, <<>>)
UriFtp == Uri(FTP, LOCALHOST, <<>>, <<>>, <<>>)

\* A Location that is a path: /n
RelNext == Uri(<<>>, <<>>, <<>>, PathNext, <<>>)

Options(own) == [kind |-> "object", own |-> own]
NoOptions == Options([k \in {} |-> TRUE])
NotAnObject == [kind |-> "array", own |-> [k \in {} |-> TRUE]]

UriLocalTlsRoot == Uri(HTTPS, LOCALHOST, <<>>, <<"/">>, <<>>)

Uris == {UriLocalTls, UriExampleTls, UriLocal, UriLocalTls8443}
Locations == Uris \cup {UriLocalTlsRoot}
ProfileOptions == {NoOptions, Options([newAgent |-> TRUE])}

-----------------------------------------------------------------------------
(* The state machine.                                                      *)

Init ==
    /\ cachedAgents = [k \in {} |-> 0]
    /\ allocated = <<>>
    /\ now = 0
    /\ reqAgent = [c \in Calls |-> RequestAgent]
    /\ callState = [c \in Calls |-> "idle"]
    /\ callUrl = [c \in Calls |-> ParseURL(UriLocal)]
    /\ followed = [c \in Calls |-> 0]
    /\ sent = [c \in Calls |-> <<>>]
    /\ outgoing = [c \in Calls |-> <<>>]
    /\ received = [c \in Calls |-> <<>>]
    /\ result = [c \in Calls |-> Nothing]
    /\ resolvedFor = [c \in Calls |-> <<>>]

\* Time passes.
Tick ==
    /\ now < MaxTime
    /\ now' = now + 1
    /\ UNCHANGED <<cachedAgents, allocated, reqAgent, callState, callUrl, followed, sent, outgoing, received, result, resolvedFor>>

\* createAgent(uri, options) called directly, as the agent tests do.
Create(c, uri, options) ==
    /\ callState[c] = "idle"
    /\ LET made == createAgent(cachedAgents, allocated, uri, options, now)
       IN /\ cachedAgents' = made.pool
          /\ allocated' = made.heap
          /\ reqAgent' = [reqAgent EXCEPT ![c] = made.agent]
          /\ callState' = [callState EXCEPT ![c] = IF made.threw = "no" THEN "ready" ELSE "thrown"]
          /\ callUrl' = [callUrl EXCEPT ![c] = IF made.threw = "no" THEN ParseURL(uri) ELSE @]
          /\ result' = [result EXCEPT ![c] = IF made.threw = "no" THEN @ ELSE Value(made.threw, 0, made.message, NoHeaders)]
          /\ resolvedFor' = [resolvedFor EXCEPT ![c] = IF made.threw = "no" THEN TargetOf(made.agent) ELSE @]
    /\ UNCHANGED <<now, followed, sent, outgoing, received>>

\* agent.update(...agent.toURLs(oldUrl, newUrl)) called directly, oldUrl
\* being the URL the profile is at.
Update(c, newUrl) ==
    /\ callState[c] = "ready"
    /\ LET urls == toURLs(callUrl[c], newUrl)
           upd == update(reqAgent[c], cachedAgents, allocated, urls[1], urls[2], now)
       IN /\ cachedAgents' = upd.pool
          /\ allocated' = upd.heap
          /\ reqAgent' = [reqAgent EXCEPT ![c] = upd.agent]
          /\ callUrl' = [callUrl EXCEPT ![c] = urls[2]]
          /\ resolvedFor' = [resolvedFor EXCEPT ![c] = IF CrossOrigin(urls[1], urls[2]) THEN TargetOf(upd.agent) ELSE @]
    /\ UNCHANGED <<now, callState, followed, sent, outgoing, received, result>>

\* A request body: undefined, a string or a Buffer of bytes, or a readable
\* stream.  A Buffer, even an empty one, is an object and so is a stream;
\* of the strings only the empty one is falsy.
NoData == [kind |-> "undefined", bytes |-> <<>>]
StringData(bytes) == [kind |-> "string", bytes |-> bytes]
BufferData(bytes) == [kind |-> "buffer", bytes |-> bytes]
StreamData(bytes) == [kind |-> "stream", bytes |-> bytes]
Truthy(data) == data.kind \in {"buffer", "stream"} \/ (data.kind = "string" /\ data.bytes # <<>>)
isStream(data) == data.kind = "stream"

\* List of HTTP verbs that support sending data.
httpDataMethods == {"PATCH", "POST", "PUT"}

\* What happened on a ClientRequest: the data it is to carry, whether the
\* write is scheduled (process.nextTick), under way (req.write called, its
\* callback due) or done, what was written, and the calls of req.end().
Outgoing(data, ends) == [data |-> data, phase |-> IF ends = 0 THEN "scheduled" ELSE "done", written |-> <<>>, ends |-> ends]

\* _request: http.request(options) is called and the request is in flight.
IssueRequest(c, agent) ==
    /\ sent' = [sent EXCEPT ![c] = Append(@, Request(agent))]
    /\ outgoing' = [outgoing EXCEPT ![c] = Append(@, Outgoing(NoData, 1))]
    /\ callState' = [callState EXCEPT ![c] = "pending"]

\* A promise that can only be resolved.
SettleByResolve(c, state, value) ==
    /\ callState' = [callState EXCEPT ![c] = "resolved"]
    /\ result' = [result EXCEPT ![c] = value]

\* The call's promise settles.
Settle(c, state, value) ==
    /\ callState' = [callState EXCEPT ![c] = state]
    /\ result' = [result EXCEPT ![c] = value]

\* _request given data with a method that sends data: Content-Length is
\* set from Buffer.byteLength(data), which throws a TypeError for what is
\* neither a string nor a Buffer; thrown inside the executor of the promise,
\* it rejects the promise before http.request is called.  Else the request
\* is made and the write of the body is left to the next tick.
IssueDataRequest(c, agent, data) ==
    IF ~(Truthy(data) /\ agent.httpOptions.method \in httpDataMethods)
    THEN /\ reqAgent' = [reqAgent EXCEPT ![c] = agent]
         /\ IssueRequest(c, agent)
         /\ UNCHANGED result
    ELSE IF isStream(data)
    THEN /\ reqAgent' = [reqAgent EXCEPT ![c] = agent]
         /\ Settle(c, "rejected", Value("TypeError", 0, "The \"string\" argument must be of type string or an instance of Buffer or ArrayBuffer", NoHeaders))
         /\ UNCHANGED <<sent, outgoing>>
    ELSE LET sized == [agent EXCEPT !.httpOptions.headers = Put(@, "Content-Length", Len(data.bytes))]
         IN /\ reqAgent' = [reqAgent EXCEPT ![c] = sized]
            /\ sent' = [sent EXCEPT ![c] = Append(@, Request(sized))]
            /\ outgoing' = [outgoing EXCEPT ![c] = Append(@, Outgoing(data, 0))]
            /\ callState' = [callState EXCEPT ![c] = "pending"]
            /\ UNCHANGED result

\* A GET whose profile is the one profile of all calls.
GetSharingProfile(c, url, options) ==
    /\ callState[c] = "idle"
    /\ IF options.kind \in {"number", "string"}
       THEN /\ Settle(c, "rejected", Value("TypeError", 0, "Cannot create property", NoHeaders))
            /\ UNCHANGED <<cachedAgents, allocated, reqAgent, callUrl, sent, outgoing, resolvedFor>>
       ELSE LET made == createAgent(cachedAgents, allocated, url, [options EXCEPT !.own = Put(@, "method", "GET")], now)
            IN /\ cachedAgents' = made.pool
               /\ allocated' = made.heap
               /\ IF made.threw # "no"
                  THEN /\ Settle(c, "rejected", Value(made.threw, 0, made.message, NoHeaders))
                       /\ UNCHANGED <<reqAgent, callUrl, sent, outgoing, resolvedFor>>
                  ELSE /\ reqAgent' = [d \in Calls |-> made.agent]
                       /\ callUrl' = [callUrl EXCEPT ![c] = ParseURL(url)]
                       /\ resolvedFor' = [resolvedFor EXCEPT ![c] = TargetOf(made.agent)]
                       /\ IssueRequest(c, made.agent)
                       /\ UNCHANGED result
    /\ UNCHANGED <<now, followed, received>>

\* A GET that leaves options.method as the caller gave it.
GetKeepingMethod(c, url, options) ==
    /\ callState[c] = "idle"
    /\ IF options.kind \in {"number", "string"}
       THEN /\ Settle(c, "rejected", Value("TypeError", 0, "Cannot create property", NoHeaders))
            /\ UNCHANGED <<cachedAgents, allocated, reqAgent, callUrl, sent, outgoing, resolvedFor>>
       ELSE LET made == createAgent(cachedAgents, allocated, url, options, now)
            IN /\ cachedAgents' = made.pool
               /\ allocated' = made.heap
               /\ IF made.threw # "no"
                  THEN /\ Settle(c, "rejected", Value(made.threw, 0, made.message, NoHeaders))
                       /\ UNCHANGED <<reqAgent, callUrl, sent, outgoing, resolvedFor>>
                  ELSE /\ reqAgent' = [reqAgent EXCEPT ![c] = made.agent]
                       /\ callUrl' = [callUrl EXCEPT ![c] = ParseURL(url)]
                       /\ resolvedFor' = [resolvedFor EXCEPT ![c] = TargetOf(made.agent)]
                       /\ IssueRequest(c, made.agent)
                       /\ UNCHANGED result
    /\ UNCHANGED <<now, followed, received>>

\* GET(url, options): options.method is forced, the profile is created and
\* _inner issues the first request.  GET is an async function: what it
\* throws rejects its promise.  Assigning a property to a number or a
\* string throws in strict mode.
Get(c, url, options) ==
    /\ callState[c] = "idle"
    /\ IF options.kind \in {"number", "string"}
       THEN /\ Settle(c, "rejected", Value("TypeError", 0, "Cannot create property", NoHeaders))
            /\ UNCHANGED <<cachedAgents, allocated, reqAgent, callUrl, sent, outgoing, resolvedFor>>
       ELSE LET made == createAgent(cachedAgents, allocated, url, [options EXCEPT !.own = Put(@, "method", "GET")], now)
            IN /\ cachedAgents' = made.pool
               /\ allocated' = made.heap
               /\ IF made.threw # "no"
                  THEN /\ Settle(c, "rejected", Value(made.threw, 0, made.message, NoHeaders))
                       /\ UNCHANGED <<reqAgent, callUrl, sent, outgoing, resolvedFor>>
                  ELSE /\ reqAgent' = [reqAgent EXCEPT ![c] = made.agent]
                       /\ callUrl' = [callUrl EXCEPT ![c] = ParseURL(url)]
                       /\ resolvedFor' = [resolvedFor EXCEPT ![c] = TargetOf(made.agent)]
                       /\ IssueRequest(c, made.agent)
                       /\ UNCHANGED result
    /\ UNCHANGED <<now, followed, received>>

\* A redirect driver that allows one hop more than maxRedirects.
RespondOffByOne(c, response) ==
    /\ callState[c] = "pending"
    /\ reqAgent[c].httpOptions.method = "GET"
    /\ Len(received[c]) < MaxServed
    /\ received' = [received EXCEPT ![c] = Append(@, response)]
    /\ LET resp == handleResponse(response)
           follow == reqAgent[c].followRedirects
           maxFollows == reqAgent[c].maxRedirects
       IN IF resp.class = "HTTPError"
          THEN /\ Settle(c, "rejected", resp)
               /\ UNCHANGED <<cachedAgents, allocated, reqAgent, callUrl, followed, sent, outgoing, resolvedFor>>
          ELSE IF ~follow
          THEN /\ Settle(c, "resolved", resp)
               /\ UNCHANGED <<cachedAgents, allocated, reqAgent, callUrl, followed, sent, outgoing, resolvedFor>>
          ELSE IF resp.class = "HTTPRedirect"
          THEN IF followed[c] > maxFollows
               THEN /\ Settle(c, "rejected", Value("HTTPError", 400, "Maximum number of redirects reached", NoHeaders))
                    /\ UNCHANGED <<cachedAgents, allocated, reqAgent, callUrl, followed, sent, outgoing, resolvedFor>>
               ELSE IF hasHeader("location", resp.headers)
               THEN LET urls == toURLs(callUrl[c], resp.headers.location)
                        upd == update(reqAgent[c], cachedAgents, allocated, urls[1], urls[2], now)
                    IN /\ cachedAgents' = upd.pool
                       /\ allocated' = upd.heap
                       /\ reqAgent' = [reqAgent EXCEPT ![c] = upd.agent]
                       /\ callUrl' = [callUrl EXCEPT ![c] = urls[2]]
                       /\ followed' = [followed EXCEPT ![c] = @ + 1]
                       /\ resolvedFor' = [resolvedFor EXCEPT ![c] = IF CrossOrigin(urls[1], urls[2]) THEN TargetOf(upd.agent) ELSE @]
                       /\ IssueRequest(c, upd.agent)
                       /\ UNCHANGED result
               ELSE /\ Settle(c, "resolved", Undefined)
                    /\ UNCHANGED <<cachedAgents, allocated, reqAgent, callUrl, followed, sent, outgoing, resolvedFor>>
          ELSE /\ Settle(c, "resolved", resp)
               /\ UNCHANGED <<cachedAgents, allocated, reqAgent, callUrl, followed, sent, outgoing, resolvedFor>>
    /\ UNCHANGED now

\* A driver that looks for the location header before it tests the hop
\* count.
DeliverLocationFirst(c, response) ==
    /\ LET resp == handleResponse(response)
           follow == reqAgent[c].followRedirects
           maxFollows == reqAgent[c].maxRedirects
       IN IF resp.class = "HTTPError"
          THEN /\ Settle(c, "rejected", resp)
               /\ UNCHANGED <<cachedAgents, allocated, reqAgent, callUrl, followed, sent, outgoing, resolvedFor>>
          ELSE IF ~follow \/ resp.class # "HTTPRedirect"
          THEN /\ Settle(c, "resolved", resp)
               /\ UNCHANGED <<cachedAgents, allocated, reqAgent, callUrl, followed, sent, outgoing, resolvedFor>>
          ELSE IF ~hasHeader("location", resp.headers)
          THEN /\ Settle(c, "resolved", Undefined)
               /\ UNCHANGED <<cachedAgents, allocated, reqAgent, callUrl, followed, sent, outgoing, resolvedFor>>
          ELSE IF followed[c] >= maxFollows
          THEN /\ Settle(c, "rejected", Value("HTTPError", 400, "Maximum number of redirects reached", NoHeaders))
               /\ UNCHANGED <<cachedAgents, allocated, reqAgent, callUrl, followed, sent, outgoing, resolvedFor>>
          ELSE LET urls == toURLs(callUrl[c], resp.headers.location)
                   upd == update(reqAgent[c], cachedAgents, allocated, urls[1], urls[2], now)
               IN /\ cachedAgents' = upd.pool
                  /\ allocated' = upd.heap
                  /\ reqAgent' = [reqAgent EXCEPT ![c] = upd.agent]
                  /\ callUrl' = [callUrl EXCEPT ![c] = urls[2]]
                  /\ followed' = [followed EXCEPT ![c] = @ + 1]
                  /\ resolvedFor' = [resolvedFor EXCEPT ![c] = IF CrossOrigin(urls[1], urls[2]) THEN TargetOf(upd.agent) ELSE @]
                  /\ IssueRequest(c, upd.agent)
                  /\ UNCHANGED result

\* handleResponse settles _request's promise with a response whose body
\* ended, and GET's _inner goes on from its await.
Deliver(c, response) ==
    /\ LET resp == handleResponse(response)
           follow == reqAgent[c].followRedirects
           maxFollows == reqAgent[c].maxRedirects
       IN IF resp.class = "HTTPError"
          THEN /\ Settle(c, "rejected", resp)
               /\ UNCHANGED <<cachedAgents, allocated, reqAgent, callUrl, followed, sent, outgoing, resolvedFor>>
          ELSE IF ~follow
          THEN /\ Settle(c, "resolved", resp)
               /\ UNCHANGED <<cachedAgents, allocated, reqAgent, callUrl, followed, sent, outgoing, resolvedFor>>
          ELSE IF resp.class = "HTTPRedirect"
          THEN IF followed[c] >= maxFollows
               THEN /\ Settle(c, "rejected", Value("HTTPError", 400, "Maximum number of redirects reached", NoHeaders))
                    /\ UNCHANGED <<cachedAgents, allocated, reqAgent, callUrl, followed, sent, outgoing, resolvedFor>>
               ELSE IF hasHeader("location", resp.headers)
               THEN LET urls == toURLs(callUrl[c], resp.headers.location)
                        upd == update(reqAgent[c], cachedAgents, allocated, urls[1], urls[2], now)
                    IN /\ cachedAgents' = upd.pool
                       /\ allocated' = upd.heap
                       /\ reqAgent' = [reqAgent EXCEPT ![c] = upd.agent]
                       /\ callUrl' = [callUrl EXCEPT ![c] = urls[2]]
                       /\ followed' = [followed EXCEPT ![c] = @ + 1]
                       /\ resolvedFor' = [resolvedFor EXCEPT ![c] = IF CrossOrigin(urls[1], urls[2]) THEN TargetOf(upd.agent) ELSE @]
                       /\ IssueRequest(c, upd.agent)
                       /\ UNCHANGED result
               ELSE /\ Settle(c, "resolved", Undefined)
                    /\ UNCHANGED <<cachedAgents, allocated, reqAgent, callUrl, followed, sent, outgoing, resolvedFor>>
          ELSE /\ Settle(c, "resolved", resp)
               /\ UNCHANGED <<cachedAgents, allocated, reqAgent, callUrl, followed, sent, outgoing, resolvedFor>>

\* The transport delivers a response to a GET and its body ends.
Respond(c, response) ==
    /\ callState[c] = "pending"
    /\ reqAgent[c].httpOptions.method = "GET"
    /\ Len(received[c]) < MaxServed
    /\ received' = [received EXCEPT ![c] = Append(@, response)]
    /\ Deliver(c, response)
    /\ UNCHANGED now

\* POST, PUT, PATCH (through dataRequest) and DELETE: options.method is
\* forced, the profile is created and the promise of _request is returned.
\* These are not async functions: what createAgent or the assignment throws
\* leaves the function as an exception, and no promise is returned.
Verb(c, method, url, options) ==
    /\ callState[c] = "idle"
    /\ IF options.kind \in {"number", "string"}
       THEN /\ Settle(c, "thrown", Value("TypeError", 0, "Cannot create property", NoHeaders))
            /\ UNCHANGED <<cachedAgents, allocated, reqAgent, callUrl, sent, outgoing, resolvedFor>>
       ELSE \E made \in {createAgent(cachedAgents, allocated, url, [options EXCEPT !.own = Put(@, "method", method)], now)} :
               /\ cachedAgents' = made.pool
               /\ allocated' = made.heap
               /\ IF made.threw # "no"
                  THEN /\ Settle(c, "thrown", Value(made.threw, 0, made.message, NoHeaders))
                       /\ UNCHANGED <<reqAgent, callUrl, sent, outgoing, resolvedFor>>
                  ELSE /\ reqAgent' = [reqAgent EXCEPT ![c] = made.agent]
                       /\ callUrl' = [callUrl EXCEPT ![c] = ParseURL(url)]
                       /\ resolvedFor' = [resolvedFor EXCEPT ![c] = TargetOf(made.agent)]
                       /\ IssueRequest(c, made.agent)
                       /\ UNCHANGED result
    /\ UNCHANGED <<now, followed, received>>

\* POST, PUT and PATCH with a body: dataRequest(url, data, options).
DataRequest(c, method, url, data, options) ==
    /\ callState[c] = "idle"
    /\ IF options.kind \in {"number", "string"}
       THEN /\ Settle(c, "thrown", Value("TypeError", 0, "Cannot create property", NoHeaders))
            /\ UNCHANGED <<cachedAgents, allocated, reqAgent, callUrl, sent, outgoing, resolvedFor>>
       ELSE \E made \in {createAgent(cachedAgents, allocated, url, [options EXCEPT !.own = Put(@, "method", method)], now)} :
               /\ cachedAgents' = made.pool
               /\ allocated' = made.heap
               /\ IF made.threw # "no"
                  THEN /\ Settle(c, "thrown", Value(made.threw, 0, made.message, NoHeaders))
                       /\ UNCHANGED <<reqAgent, callUrl, sent, outgoing, resolvedFor>>
                  ELSE /\ callUrl' = [callUrl EXCEPT ![c] = ParseURL(url)]
                       /\ resolvedFor' = [resolvedFor EXCEPT ![c] = TargetOf(made.agent)]
                       /\ IssueDataRequest(c, made.agent, data)
    /\ UNCHANGED <<now, followed, received>>

\* The next tick after _request: req.write(data, callback).
WriteBody(c) ==
    /\ outgoing[c] # <<>>
    /\ LET n == Len(outgoing[c])
       IN /\ outgoing[c][n].phase = "scheduled"
          /\ outgoing' = [outgoing EXCEPT ![c][n].phase = "writing", ![c][n].written = outgoing[c][n].data.bytes]
    /\ UNCHANGED <<cachedAgents, allocated, now, reqAgent, callState, callUrl, followed, sent, received, result, resolvedFor>>

\* The callback of req.write: req.end().
WriteCallback(c) ==
    /\ outgoing[c] # <<>>
    /\ LET n == Len(outgoing[c])
       IN /\ outgoing[c][n].phase = "writing"
          /\ outgoing' = [outgoing EXCEPT ![c][n].phase = "done", ![c][n].ends = @ + 1]
    /\ UNCHANGED <<cachedAgents, allocated, now, reqAgent, callState, callUrl, followed, sent, received, result, resolvedFor>>

\* The response to a POST, PUT, PATCH or DELETE ends: handleResponse
\* settles the promise the verb returned.
\* An answer to POST, PUT, PATCH or DELETE handled by GET's redirect driver.
RespondVerbFollowing(c, response) ==
    /\ callState[c] = "pending"
    /\ reqAgent[c].httpOptions.method # "GET"
    /\ Len(received[c]) < MaxServed
    /\ received' = [received EXCEPT ![c] = Append(@, response)]
    /\ Deliver(c, response)
    /\ UNCHANGED now

RespondVerb(c, response) ==
    /\ callState[c] = "pending"
    /\ reqAgent[c].httpOptions.method # "GET"
    /\ Len(received[c]) < MaxServed
    /\ received' = [received EXCEPT ![c] = Append(@, response)]
    /\ LET resp == handleResponse(response)
       IN Settle(c, IF resp.class = "HTTPError" THEN "rejected" ELSE "resolved", resp)
    /\ UNCHANGED <<cachedAgents, allocated, now, reqAgent, callUrl, followed, sent, outgoing, resolvedFor>>

\* An Error of the transport: its message, and the words of the message,
\* among which indexOf(word) finds one.
Includes(err, word) == \E i \in 1..Len(err.words) : err.words[i] = word

SocketHangUp == [message |-> "socket hang up", words |-> <<"socket", "hang", "up">>]
ConnectionRefused == [message |-> "connect ECONNREFUSED 127.0.0.1:443", words |-> <<"connect", "ECONNREFUSED", "127.0.0.1:443">>]

\* The rejection value the 'error' handler of _request builds from err.
\* statusCode 0 stands for err.status, which a transport error has not.
ErrorResult(err) == Put(IF Includes(err, "ECONNREFUSED") THEN Value("HTTPError", 500, "Error connecting to remote server", NoHeaders) ELSE Value("HTTPError", 0, err.message, NoHeaders), "original", err)

\* An 'error' handler that wraps every error alike.
TransportErrorPlain(c, err) ==
    /\ callState[c] = "pending"
    /\ Settle(c, "rejected", Put(Value("HTTPError", 0, err.message, NoHeaders), "original", err))
    /\ UNCHANGED <<cachedAgents, allocated, now, reqAgent, callUrl, followed, sent, outgoing, received, resolvedFor>>

\* The request emits 'error': _request rejects with an HTTPError that
\* carries the error.
TransportError(c, err) ==
    /\ callState[c] = "pending"
    /\ Settle(c, "rejected", ErrorResult(err))
    /\ UNCHANGED <<cachedAgents, allocated, now, reqAgent, callUrl, followed, sent, outgoing, received, resolvedFor>>

\* The chunks of a response's body: an error page comes in two, a success
\* in one, a redirect has none.
Chunks(statusCode) == IF statusCode >= 200 /\ statusCode < 300 THEN <<<<"o", "k">>>> ELSE IF statusCode >= 300 /\ statusCode < 400 THEN <<>> ELSE <<<<"n", "o">>, <<"t">>>>

Response(statusCode, headers) == [statusCode |-> statusCode, headers |-> headers, data |-> Chunks(statusCode)]
Moved(location) == Response(301, [h \in {"connection", "location"} |-> IF h = "location" THEN location ELSE "keep-alive"])

\* The request emits 'response': handleResponse is scheduled with a
\* response that has no data yet and listens to it.
ResponseHead(c, response) ==
    /\ callState[c] = "pending"
    /\ Len(received[c]) < MaxServed
    /\ received' = [received EXCEPT ![c] = Append(@, [response EXCEPT !.data = <<>>])]
    /\ callState' = [callState EXCEPT ![c] = "receiving"]
    /\ UNCHANGED <<cachedAgents, allocated, now, reqAgent, callUrl, followed, sent, outgoing, result, resolvedFor>>

\* The response emits 'data': the chunk is pushed.
Data(c) ==
    /\ callState[c] = "receiving"
    /\ LET n == Len(received[c])
           response == received[c][n]
           all == Chunks(response.statusCode)
       IN /\ Len(response.data) < Len(all)
          /\ received' = [received EXCEPT ![c][n].data = Append(@, all[Len(response.data) + 1])]
    /\ UNCHANGED <<cachedAgents, allocated, now, reqAgent, callState, callUrl, followed, sent, outgoing, result, resolvedFor>>

\* The 'end' handler of handleResponse, on the response as it stands.
Ended(c) ==
    /\ LET response == received[c][Len(received[c])]
           resp == handleResponse(response)
       IN IF reqAgent[c].httpOptions.method = "GET"
          THEN Deliver(c, response)
          ELSE /\ Settle(c, IF resp.class = "HTTPError" THEN "rejected" ELSE "resolved", resp)
               /\ UNCHANGED <<cachedAgents, allocated, reqAgent, callUrl, followed, sent, outgoing, resolvedFor>>
    /\ UNCHANGED <<now, received>>

\* The response emits 'end' after its last chunk.
End(c) ==
    /\ callState[c] = "receiving"
    /\ LET response == received[c][Len(received[c])]
       IN response.data = Chunks(response.statusCode)
    /\ Ended(c)

\* The request emits 'timeout' and the handler calls req.abort().  Before a
\* response the request emits 'error' (socket hang up) and _request
\* rejects with an HTTPError.  Once the response is being received the
\* outcome depends on the Node.js release: the response emits 'error'
\* (aborted), which handleResponse hands to reject as it is, or it emits
\* 'end' and the 'end' handler runs on the chunks that arrived.
Timeout(c) ==
    \/ /\ callState[c] = "pending"
       /\ Settle(c, "rejected", ErrorResult(SocketHangUp))
       /\ UNCHANGED <<cachedAgents, allocated, now, reqAgent, callUrl, followed, sent, outgoing, received, resolvedFor>>
    \/ /\ callState[c] = "receiving"
       /\ Settle(c, "rejected", Value("Error", 0, "aborted", NoHeaders))
       /\ UNCHANGED <<cachedAgents, allocated, now, reqAgent, callUrl, followed, sent, outgoing, received, resolvedFor>>
    \/ /\ callState[c] = "receiving"
       /\ Ended(c)

\* What the server answers in the runs of one call, and of two.
Responses == {Response(200, NoHeaders), Response(404, NoHeaders), Response(301, NoHeaders)} \cup {Moved(l) : l \in {RelNext, UriExampleTls, UriLocalTls8443}}
FewResponses == {Response(200, NoHeaders), Moved(UriExampleTls), Moved(UriLocalTls8443)}
Errors == {ConnectionRefused, SocketHangUp}

GetUris == {UriLocalTls, UriLocal, UriFtp}
GetOptions == {NoOptions, Options([maxRedirects |-> JSNumber(1)]), Options([maxRedirects |-> JSNumber(20)]), Options([followRedirects |-> FALSE]), Options([newAgent |-> TRUE]), NotAnObject, [kind |-> "number", own |-> [k \in {} |-> TRUE]]}

\* The agent module used directly: profiles are created and updated.
Next ==
    \/ Tick
    \/ \E c \in Calls, uri \in Uris \cup {UriFtp}, options \in ProfileOptions \cup {NotAnObject} : Create(c, uri, options)
    \/ \E c \in Calls, newUrl \in Locations : Update(c, newUrl)

Spec == Init /\ [][Next]_vars

\* Profiles are created, none is updated.
\* ftp://, ssh://, irc://, foo:// and gopher:// URIs.
UnsupportedUris == {Uri(scheme, LOCALHOST, <<>>, <<"/">>, <<>>) : scheme \in {FTP, <<"s", "s", "h">>, <<"i", "r", "c">>, <<"f", "o", "o">>, <<"g", "o", "p", "h", "e", "r">>}}

CreateUris == Uris \cup {Uri(HTTP, LOCALHOST, <<"4", "4", "3">>, <<>>, <<>>), Uri(HTTPS, EXAMPLE, Port8443, <<>>, <<>>)} \cup UnsupportedUris
CreateOptions == ProfileOptions \cup {Options([maxSockets |-> 10]), Options([secureProtocol |-> <<"T", "L", "S">>]), Options([maxSockets |-> 10, newAgent |-> TRUE])}

NextCreate ==
    \/ Tick
    \/ \E c \in Calls, uri \in CreateUris, options \in CreateOptions : Create(c, uri, options)

SpecCreate == Init /\ [][NextCreate]_vars

\* A profile created with every kind of maxRedirects option, then updated.
MaxRequested == 20
Requested == {JSNumber(n) : n \in 0..MaxRequested} \cup {JSString(<<"a", "b", "c">>), JSString(<<"7">>), JSString(<<"2", "0">>), JSString(<<>>), JSNull}
RedirectOptions == {NoOptions} \cup {Options([maxRedirects |-> value]) : value \in Requested}

NextRedirects ==
    \/ Tick
    \/ \E uri \in {UriLocalTls, UriLocal}, options \in RedirectOptions : Create(1, uri, options)
    \/ \E newUrl \in {UriLocal, UriLocalTlsRoot} : Update(1, newUrl)

SpecRedirects == Init /\ [][NextRedirects]_vars

\* One GET call and the server's answers to it.
NextGet ==
    \/ Tick
    \/ \E url \in GetUris, options \in GetOptions : Get(1, url, options)
    \/ \E response \in Responses : Respond(1, response)
    \/ \E err \in Errors : TransportError(1, err)

SpecGet == Init /\ [][NextGet]_vars

\* Two GET calls in flight at once.
NextConc ==
    \/ Tick
    \/ \E c \in Calls, url \in {UriLocalTls, UriLocal} : Get(c, url, NoOptions)
    \/ \E c \in Calls, response \in FewResponses : Respond(c, response)

SpecConc == Init /\ [][NextConc]_vars

\* One GET call against a server that may redirect for ever: every request
\* is answered, by a response or by an error.  The hop limits tried are
\* below the number of responses the server gives.
LoopOptions == {Options([maxRedirects |-> JSNumber(n)]) : n \in 0..(MaxServed - 1)} \cup {Options([followRedirects |-> FALSE])}

Answered == (\E response \in Responses : Respond(1, response)) \/ (\E err \in Errors : TransportError(1, err))

NextLoop ==
    \/ \E url \in {UriLocalTls, UriLocal}, options \in LoopOptions : Get(1, url, options)
    \/ \E response \in Responses : Respond(1, response)
    \/ \E err \in Errors : TransportError(1, err)

SpecLoop == Init /\ [][NextLoop]_vars /\ WF_vars(Answered)

\* One call of any verb, with good and bad arguments, and a server that
\* answers any status.
Methods == {"POST", "PUT", "PATCH", "DELETE"}
Statuses == {100, 199, 200, 204, 299, 300, 301, 310, 311, 404, 500}
StatusResponses == {Response(s, NoHeaders) : s \in Statuses} \cup {Response(s, [h \in {"connection", "location"} |-> IF h = "location" THEN RelNext ELSE "keep-alive"]) : s \in {300, 301, 310}}

\* http:// (no host), which new url.URL rejects.
UriNoHost == Uri(HTTP, <<>>, <<>>, <<>>, <<>>)
VerbUris == {UriLocalTls, UriLocal, UriFtp, UriNoHost}
NonMappings == {NotAnObject, [kind |-> "number", own |-> [k \in {} |-> TRUE]], [kind |-> "string", own |-> [k \in {} |-> TRUE]]}
\* The caller's own method comes with a maxRedirects of 2.
OwnMethod == Options([method |-> "DELETE", maxRedirects |-> JSNumber(2)])
VerbOptions == {NoOptions, Options([followRedirects |-> FALSE]), OwnMethod} \cup NonMappings

NextVerbs ==
    \/ Tick
    \/ \E url \in VerbUris, options \in VerbOptions : Get(1, url, options)
    \/ \E method \in Methods, url \in VerbUris, options \in VerbOptions : Verb(1, method, url, options)
    \/ \E response \in StatusResponses : Respond(1, response)
    \/ \E response \in StatusResponses : RespondVerb(1, response)
    \/ \E err \in Errors : TransportError(1, err)

SpecVerbs == Init /\ [][NextVerbs]_vars
\* Creates that succeed and creates that fail: options that are no plain
\* object, an ftp:// URI, and http:// which the URL parser rejects.
FailingUris == {UriFtp, UriNoHost}
NextFailures ==
    \/ Tick
    \/ \E c \in Calls, uri \in {UriLocalTls, UriLocal} \cup FailingUris, options \in {NoOptions, Options([maxSockets |-> 10])} \cup NonMappings : Create(c, uri, options)

SpecFailures == Init /\ [][NextFailures]_vars


\* One call of any verb whose responses arrive event by event, and the
\* request's timeout.
TimeoutResponses == {Response(200, NoHeaders), Response(404, NoHeaders), Moved(RelNext)}

NextTimeout ==
    \/ Tick
    \/ \E options \in {NoOptions, Options([followRedirects |-> FALSE])} : Get(1, UriLocalTls, options)
    \/ \E method \in Methods : Verb(1, method, UriLocalTls, NoOptions)
    \/ \E response \in TimeoutResponses : ResponseHead(1, response)
    \/ Data(1)
    \/ End(1)
    \/ Timeout(1)

SpecTimeout == Init /\ [][NextTimeout]_vars

\* One call of any verb, with or without a body, and the server's answers.
Bodies == {NoData, StringData(<<>>), StringData(<<"a", "b">>), BufferData(<<>>), BufferData(<<"a", "b", "c">>), StreamData(<<"a", "b">>)}
BodyResponses == {Response(200, NoHeaders), Response(404, NoHeaders), Moved(RelNext)}

NextBody ==
    \/ Tick
    \/ \E options \in {NoOptions, Options([maxRedirects |-> JSNumber(1)])} : Get(1, UriLocalTls, options)
    \/ \E method \in Methods : Verb(1, method, UriLocalTls, NoOptions)
    \/ \E method \in httpDataMethods, data \in Bodies, options \in {NoOptions, NotAnObject} : DataRequest(1, method, UriLocalTls, data, options)
    \/ WriteBody(1)
    \/ WriteCallback(1)
    \/ \E response \in BodyResponses : Respond(1, response)
    \/ \E response \in BodyResponses : RespondVerb(1, response)
    \/ \E err \in Errors : TransportError(1, err)

SpecBody == Init /\ [][NextBody]_vars
\* One call of any verb, answered by bodies in every content encoding: the
\* server codes the chunks of the payload with the codec its header names
\* ('br' is a codec the executor has no filter for).
Encodings == {"gzip", "deflate", "br", "identity", "GZIP"}
Coded(encoding, byte) == CASE encoding \in {"gzip", "GZIP"} -> gzip(byte) [] encoding = "deflate" -> deflate(byte) [] encoding = "br" -> "b" \o byte [] OTHER -> byte
EncodedResponse(statusCode, encoding) ==
    [statusCode |-> statusCode,
     headers |-> [h \in {"connection", "content-encoding"} |-> IF h = "connection" THEN "keep-alive" ELSE encoding],
     data |-> [j \in 1..Len(Chunks(statusCode)) |-> [i \in 1..Len(Chunks(statusCode)[j]) |-> Coded(encoding, Chunks(statusCode)[j][i])]]]
EncodedResponses == {EncodedResponse(s, e) : s \in {200, 310, 404}, e \in Encodings} \cup {Response(s, NoHeaders) : s \in {200, 404}}

NextDecode ==
    \/ Tick
    \/ \E options \in {NoOptions, Options([followRedirects |-> FALSE])} : Get(1, UriLocalTls, options)
    \/ \E method \in Methods : Verb(1, method, UriLocalTls, NoOptions)
    \/ \E response \in EncodedResponses : Respond(1, response)
    \/ \E response \in EncodedResponses : RespondVerb(1, response)

SpecDecode == Init /\ [][NextDecode]_vars


\* One profile created from every kind of URI and options, then updated.
Port8080 == <<"8", "0", "8", "0">>
PathRuns == <<"/", "a", "/", "/", "/", "b", "/", "/">>
Query == <<"?", "q">>
UriExample8080 == Uri(HTTP, EXAMPLE, Port8080, PathRuns, Query)
RelQuery == Uri(<<>>, <<>>, <<>>, PathRuns, Query)
\* ?next=http://h/x, a query with a run of '/' in it.
QueryNext == <<"?", "n", "e", "x", "t", "=", "h", "t", "t", "p", ":", "/", "/", "h", "/", "x">>
UriLocalTlsQuery == Uri(HTTPS, LOCALHOST, <<>>, PathNext, QueryNext)
RelQueryNext == Uri(<<>>, <<>>, <<>>, PathNext, QueryNext)
ProfileUris == {UriLocalTls, UriLocal, UriLocalTls8443, UriExample8080, UriLocalTlsQuery}
ProfileLocations == {UriExampleTls, UriLocal, UriLocalTls8443, UriExample8080, RelNext, RelQuery, RelQueryNext}
CallerHeaders == [h \in {"foo", "X-Foo"} |-> IF h = "foo" THEN "bar" ELSE "baz"]
TunedOptions == {Options([maxSockets |-> 10]), Options([keepAlive |-> FALSE, keepAliveMsecs |-> 5, maxFreeSockets |-> 1, rejectUnauthorized |-> FALSE]), Options([secureProtocol |-> <<"T", "L", "S">>, timeout |-> 5, foo |-> 1])}
HeaderOptions == {Options([headers |-> CallerHeaders]), Options([headers |-> [h \in {"accept-encoding"} |-> "br"]]), Options([headers |-> [h \in {"Accept-Encoding"} |-> "br"]])}
\* Credentials, CA material and a redirect policy of the caller's.
Credentials == [h \in {"Authorization"} |-> "Basic dTpw"]
GuardedOptions == Options([method |-> "FOO", headers |-> Credentials, ca |-> "pem", followRedirects |-> FALSE, maxRedirects |-> JSNumber(2), maxSockets |-> 10])
CreateProfileOptions == {NoOptions, Options([method |-> "FOO"]), Options([method |-> "FOO", headers |-> CallerHeaders, newAgent |-> TRUE]), GuardedOptions} \cup TunedOptions \cup HeaderOptions

NextProfile ==
    \/ \E uri \in ProfileUris, options \in CreateProfileOptions : Create(1, uri, options)
    \/ \E newUrl \in ProfileLocations : Update(1, newUrl)

SpecProfile == Init /\ [][NextProfile]_vars

\* Profiles created for, and updated to, every path of up to MaxPathLen
\* characters: normalize is applied to each.
MaxPathLen == 5
RECURSIVE Strings(_)
Strings(n) == IF n = 0 THEN {<<>>} ELSE Strings(n - 1) \cup {Append(s, ch) : s \in Strings(n - 1), ch \in {"/", "a", "b"}}
Paths == {<<"/">> \o s : s \in Strings(MaxPathLen - 1)}

NextNormalize ==
    \/ \E path \in Paths : Create(1, Uri(HTTPS, LOCALHOST, <<>>, path, <<>>), NoOptions)
    \/ \E path \in Paths : Update(1, Uri(<<>>, <<>>, <<>>, path, <<>>))

SpecNormalize == Init /\ [][NextNormalize]_vars

-----------------------------------------------------------------------------
(* Properties.                                                             *)

\* Call (or profile slot) c holds a profile that createAgent returned.
HasProfile(c) == reqAgent[c].http # "undefined"
\* ... and the profile was not created with newAgent.
Pooled(c) == HasProfile(c) /\ ~reqAgent[c].newAgent
AgentOf(c) == reqAgent[c].httpOptions.agent
DefaultPool(c) == reqAgent[c].agentOptions = RequestAgent.agentOptions
ProtocolOf(c) == reqAgent[c].httpOptions.protocol
HostnameOf(c) == reqAgent[c].httpOptions.hostname
PortOf(c) == PortNumber(reqAgent[c].httpOptions.port)

\* The pool key of the lookup that gave profile c its agent.
KeyOf(c) == optionsToHash(reqAgent[c].agentOptions, [port |-> NumPort(resolvedFor[c][3])], IF StartsWith(resolvedFor[c][1], HTTPS) THEN HTTPS ELSE HTTP)

\* C1: two profiles created (no newAgent, default pool options) for the
\* same scheme, host and port hold the identical pooled agent; two created
\* for different ports or different schemes hold distinct agents.
C1_CreationsShareByOrigin ==
    \A c, d \in Calls :
        (Pooled(c) /\ Pooled(d) /\ DefaultPool(c) /\ DefaultPool(d)) =>
            /\ (ProtocolOf(c) = ProtocolOf(d) /\ HostnameOf(c) = HostnameOf(d) /\ PortOf(c) = PortOf(d))
                   => (AgentOf(c) = AgentOf(d) /\ AgentOf(c) # NoAgent)
            /\ (ProtocolOf(c) # ProtocolOf(d) \/ PortOf(c) # PortOf(d))
                   => AgentOf(c) # AgentOf(d)

\* Two profiles were created for https://localhost:8443 and share an agent.
C1_Witness ==
    \E c, d \in Calls :
        /\ c # d /\ Pooled(c) /\ Pooled(d) /\ DefaultPool(c) /\ DefaultPool(d)
        /\ TargetOf(reqAgent[c]) = <<HTTPS \o <<":">>, LOCALHOST, 8443>>
        /\ TargetOf(reqAgent[d]) = TargetOf(reqAgent[c])
        /\ AgentOf(c) = AgentOf(d) /\ AgentOf(c) # NoAgent

\* C2: two profiles created for the same scheme and port and different
\* hostnames never share a pooled agent.
C2_DifferentHostsNeverShare ==
    \A c, d \in Calls :
        (Pooled(c) /\ Pooled(d) /\ ProtocolOf(c) = ProtocolOf(d) /\ PortOf(c) = PortOf(d) /\ HostnameOf(c) # HostnameOf(d))
            => AgentOf(c) # AgentOf(d)

\* C3 as stated: any two profiles that are at the same protocol, hostname
\* and port with the same agentOptions, neither with newAgent, hold the
\* identical pooled agent, whatever creates and updates came before.
C3_SameFingerprintSameAgent ==
    \A c, d \in Calls :
        (Pooled(c) /\ Pooled(d) /\ TargetOf(reqAgent[c]) = TargetOf(reqAgent[d]) /\ reqAgent[c].agentOptions = reqAgent[d].agentOptions)
            => AgentOf(c) = AgentOf(d)

\* The profile's agent was looked up in the pool for the target the profile
\* is at now: by create, or by an update that changed protocol or hostname.
ResolvedForCurrent(c) == resolvedFor[c] = TargetOf(reqAgent[c])

\* C3, amended: two such profiles hold the identical pooled agent when each
\* one's agent was last looked up for the target it is at now; an update
\* that changed only the port did no lookup and is not covered.
C3_SameFingerprintSameAgentWhenResolved ==
    \A c, d \in Calls :
        (Pooled(c) /\ Pooled(d) /\ TargetOf(reqAgent[c]) = TargetOf(reqAgent[d]) /\ reqAgent[c].agentOptions = reqAgent[d].agentOptions /\ ResolvedForCurrent(c) /\ ResolvedForCurrent(d))
            => (AgentOf(c) = AgentOf(d) /\ AgentOf(c) # NoAgent)

\* A profile created for http://localhost was updated to
\* https://localhost:8443 (update stores the port as a string) and shares
\* the agent of a profile created for https://localhost:8443.
C3_Witness ==
    \E c, d \in Calls :
        /\ c # d /\ Pooled(c) /\ Pooled(d)
        /\ reqAgent[c].httpOptions.port = StrPort(Port8443)
        /\ reqAgent[d].httpOptions.port = NumPort(8443)
        /\ TargetOf(reqAgent[c]) = TargetOf(reqAgent[d])
        /\ reqAgent[c].agentOptions = reqAgent[d].agentOptions
        /\ ResolvedForCurrent(c) /\ ResolvedForCurrent(d)
        /\ AgentOf(c) = AgentOf(d) /\ AgentOf(c) # NoAgent

\* C4: the pool key covers the pool options: profiles created for the same
\* scheme, host and port with different agentOptions hold distinct agents,
\* and the agent a profile holds was constructed with the profile's own
\* agentOptions.
C4_KeyCoversPoolOptions ==
    /\ \A c, d \in Calls :
           (Pooled(c) /\ Pooled(d) /\ TargetOf(reqAgent[c]) = TargetOf(reqAgent[d]) /\ reqAgent[c].agentOptions # reqAgent[d].agentOptions)
               => AgentOf(c) # AgentOf(d)
    /\ \A c \in Calls : Pooled(c) => allocated[AgentOf(c)].options = reqAgent[c].agentOptions

\* C5: however concurrent GET calls and their redirect hops interleave,
\* one agent is constructed per pool key (as many agents exist as keys,
\* and no two keys hold the same agent), and every call holds the agent the
\* pool has under the key it looked up.
C5_OneAgentPerKey ==
    /\ Len(allocated) = Cardinality(DOMAIN cachedAgents)
    /\ \A j, k \in DOMAIN cachedAgents : j # k => cachedAgents[j].agent # cachedAgents[k].agent
    /\ \A c \in Calls : Pooled(c) => (KeyOf(c) \in DOMAIN cachedAgents /\ AgentOf(c) = cachedAgents[KeyOf(c)].agent)
    /\ \A c, d \in Calls : (Pooled(c) /\ Pooled(d) /\ KeyOf(c) = KeyOf(d)) => AgentOf(c) = AgentOf(d)

\* Two calls are in flight at once, each after a redirect hop, and hold the
\* same agent while the pool has another one too.
C5_Witness ==
    /\ callState[1] = "pending" /\ callState[2] = "pending"
    /\ followed[1] >= 1 /\ followed[2] >= 1
    /\ KeyOf(1) = KeyOf(2) /\ AgentOf(1) = AgentOf(2) /\ AgentOf(1) # NoAgent
    /\ Len(allocated) >= 2

\* C6: the pool only grows: a key, once inserted, stays and keeps the agent
\* (and the keepAlive) first stored under it; only lastUsed may change.
C6_PoolAppendOnly ==
    [][\A k \in DOMAIN cachedAgents :
           /\ k \in DOMAIN cachedAgents'
           /\ cachedAgents'[k].agent = cachedAgents[k].agent
           /\ cachedAgents'[k].keepAlive = cachedAgents[k].keepAlive]_vars

\* The pool holds three keys, one of them was found again at a later time,
\* and a call has settled.
C6_Witness ==
    /\ Cardinality(DOMAIN cachedAgents) >= 3
    /\ \E j, k \in DOMAIN cachedAgents : cachedAgents[j].lastUsed = 0 /\ cachedAgents[k].lastUsed > 0
    /\ \E c \in Calls : callState[c] = "resolved"
    /\ \E c \in Calls : followed[c] >= 1

\* C7: a step that creates or updates a profile with newAgent leaves the
\* pool and the constructed agents as they were (no entry added, no
\* lastUsed touched), and the profile holds no pooled agent.
C7_NewAgentBypassesPool ==
    [][\A c \in Calls :
           (reqAgent'[c] # reqAgent[c] /\ reqAgent'[c].http # "undefined" /\ reqAgent'[c].newAgent)
               => (cachedAgents' = cachedAgents /\ allocated' = allocated /\ reqAgent'[c].httpOptions.agent = NoAgent)]_vars

\* A newAgent profile has been updated to https://localhost:8443 (update
\* stores the port as a string) and holds no agent, while another profile
\* holds the pool's agent for that target, stored at an earlier time.
C7_Witness ==
    \E c, d \in Calls :
        /\ HasProfile(c) /\ reqAgent[c].newAgent
        /\ reqAgent[c].httpOptions.port = StrPort(Port8443)
        /\ AgentOf(c) = NoAgent
        /\ Pooled(d) /\ ResolvedForCurrent(d) /\ TargetOf(reqAgent[d]) = TargetOf(reqAgent[c])
        /\ now > 0
        /\ cachedAgents[KeyOf(d)].lastUsed = 0

\* C8: an update whose new URL has the protocol and hostname of the old one
\* keeps the profile's agent; one that changes protocol or hostname (no
\* newAgent) gives the profile a pooled agent other than the one it had.
C8_UpdateSwitchesAgentAcrossOrigins ==
    [][\A c \in Calls :
           (callState[c] = "ready" /\ callUrl'[c] # callUrl[c]) =>
               IF CrossOrigin(callUrl[c], callUrl'[c])
               THEN ~reqAgent[c].newAgent => (reqAgent'[c].httpOptions.agent # NoAgent /\ reqAgent'[c].httpOptions.agent # AgentOf(c))
               ELSE reqAgent'[c].httpOptions.agent = AgentOf(c)]_vars

IsRedirect(response) == response.statusCode >= 300 /\ response.statusCode <= 310
IsSuccess(response) == response.statusCode >= 200 /\ response.statusCode < 300
HasLocation(response) == "location" \in DOMAIN response.headers

\* The URL a call is at after following the first i Locations it received.
RECURSIVE UrlAfter(_, _, _)
UrlAfter(base, responses, i) == IF i = 0 THEN base ELSE ResolveURL(responses[i].headers.location, UrlAfter(base, responses, i - 1))

\* The transport request is the one for the URL: module, host, port, path.
SentTo(request, url) ==
    /\ request.http = (IF StartsWith(url.protocol, HTTPS) THEN "https" ELSE "http")
    /\ request.hostname = url.hostname
    /\ request.port = (IF url.port = <<>> THEN (IF StartsWith(url.protocol, HTTPS) THEN 443 ELSE 80) ELSE parseInt(url.port))
    /\ request.path = normalize(url.pathname \o url.search)
    /\ request.method = "GET"

\* The call received k redirects with a Location and then a 2xx response,
\* k within the profile's maxRedirects, and follows redirects.
RedirectsThenSuccess(c, k) ==
    /\ HasProfile(c) /\ reqAgent[c].followRedirects
    /\ Len(received[c]) = k + 1
    /\ \A i \in 1..k : IsRedirect(received[c][i]) /\ HasLocation(received[c][i])
    /\ IsSuccess(received[c][k + 1])
    /\ k <= reqAgent[c].maxRedirects

\* C9: a GET that follows redirects and received k redirects with a
\* Location, then a 2xx response, is resolved with that response after k
\* hops: k + 1 transport requests were sent, the first to the call's URL
\* and the (i+1)-th to the i-th Location resolved against the URL before.
C9_FollowsRedirectsToSuccess ==
    \A k \in 0..MaxServed :
        RedirectsThenSuccess(1, k) =>
            /\ callState[1] = "resolved"
            /\ result[1] = handleResponse(received[1][k + 1])
            /\ result[1].class = "HTTPResponse"
            /\ followed[1] = k
            /\ Len(sent[1]) = k + 1
            /\ \E url \in GetUris : \A i \in 0..k : SentTo(sent[1][i + 1], UrlAfter(ParseURL(url), received[1], i))

\* Two redirects were followed, the first to a path on the same host and the
\* second to another host, and the call resolved with the 200 that came next.
C9_Witness ==
    /\ RedirectsThenSuccess(1, 2)
    /\ received[1][1].headers.location = RelNext
    /\ received[1][2].headers.location = UriExampleTls
    /\ callState[1] = "resolved"
    /\ Len(sent[1]) = 3
    /\ sent[1][2].path = PathNext
    /\ sent[1][3].hostname = EXAMPLE

\* C10: a GET that follows redirects, has hops left and receives a redirect
\* without a location header is rejected with an error (the missing
\* Location one); it is not resolved.
C10_MissingLocationRejects ==
    \A k \in 0..MaxServed :
        (/\ HasProfile(1) /\ reqAgent[1].followRedirects
         /\ Len(received[1]) = k + 1
         /\ \A i \in 1..k : IsRedirect(received[1][i]) /\ HasLocation(received[1][i])
         /\ IsRedirect(received[1][k + 1]) /\ ~HasLocation(received[1][k + 1])
         /\ k < reqAgent[1].maxRedirects)
            => (callState[1] = "rejected" /\ result[1].class = "HTTPError")

\* C11: a GET that follows redirects and receives a redirect when it has
\* already followed maxRedirects hops is rejected with the 'Maximum number
\* of redirects reached' error, and no request is sent after that redirect
\* (with or without a Location).
C11_TooManyRedirectsRejects ==
    \A k \in 0..MaxServed :
        (/\ HasProfile(1) /\ reqAgent[1].followRedirects
         /\ Len(received[1]) = k + 1
         /\ \A i \in 1..k : IsRedirect(received[1][i]) /\ HasLocation(received[1][i])
         /\ IsRedirect(received[1][k + 1])
         /\ k >= reqAgent[1].maxRedirects)
            => /\ callState[1] = "rejected"
               /\ result[1].class = "HTTPError"
               /\ result[1].message = "Maximum number of redirects reached"
               /\ followed[1] = k
               /\ Len(sent[1]) = k + 1

\* maxRedirects is 1, the server answered two redirects with a Location:
\* the first was followed, the second rejected the call.
C11_Witness ==
    /\ HasProfile(1) /\ reqAgent[1].followRedirects /\ reqAgent[1].maxRedirects = 1
    /\ Len(received[1]) = 2
    /\ \A i \in 1..2 : IsRedirect(received[1][i]) /\ HasLocation(received[1][i])
    /\ callState[1] = "rejected"
    /\ result[1].message = "Maximum number of redirects reached"
    /\ Len(sent[1]) = 2

\* The profile GET(url, options) creates when the pool is empty.
FreshProfile(url, options) == createAgent([k \in {} |-> 0], <<>>, url, [options EXCEPT !.own = Put(@, "method", "GET")], 0).agent

\* C12: a GET whose profile does not follow redirects and that receives a
\* redirect is resolved with the redirect itself (its status, headers and
\* location); one request was sent and the profile is as create made it
\* (update was not called).
C12_RedirectReturnedWhenNotFollowing ==
    (/\ HasProfile(1) /\ ~reqAgent[1].followRedirects
     /\ Len(received[1]) >= 1 /\ IsRedirect(received[1][1]))
        => /\ callState[1] = "resolved"
           /\ result[1].class = "HTTPRedirect"
           /\ result[1].statusCode = received[1][1].statusCode
           /\ result[1].headers = received[1][1].headers
           /\ result[1].location = (IF HasLocation(received[1][1]) THEN <<received[1][1].headers.location>> ELSE <<>>)
           /\ Len(received[1]) = 1
           /\ Len(sent[1]) = 1
           /\ followed[1] = 0
           /\ \E url \in GetUris, options \in GetOptions :
                  /\ isObject(options)
                  /\ reqAgent[1] = FreshProfile(url, options)
                  /\ callUrl[1] = ParseURL(url)
                  /\ sent[1][1] = Request(reqAgent[1])

\* followRedirects is false and the call resolved with a 301 whose Location
\* is another host; the profile is still at localhost.
C12_Witness ==
    /\ HasProfile(1) /\ ~reqAgent[1].followRedirects
    /\ Len(received[1]) = 1 /\ received[1][1] = Moved(UriExampleTls)
    /\ callState[1] = "resolved"
    /\ result[1].location = <<UriExampleTls>>
    /\ reqAgent[1].httpOptions.hostname = LOCALHOST
    /\ Len(sent[1]) = 1

Settled(c) == callState[c] \in {"resolved", "rejected"}

\* C13: a GET call whose requests are all answered terminates, whatever the
\* server answers: a pending call is eventually resolved or rejected, it
\* never sent more than maxRedirects + 1 (at most 16) requests, and it is
\* the driver's hop limit, not the end of the server's answers, that stops
\* a redirect loop.
C13_GetTerminates ==
    /\ [](callState[1] = "pending" => Len(received[1]) < MaxServed)
    /\ [](HasProfile(1) => (Len(sent[1]) <= reqAgent[1].maxRedirects + 1 /\ Len(sent[1]) <= maximumRedirects + 1))
    /\ (callState[1] = "pending") ~> Settled(1)

\* The server redirected every request of a call with maxRedirects 2: the
\* call was rejected at the third redirect, after three requests.
C13_Witness ==
    /\ HasProfile(1) /\ reqAgent[1].followRedirects /\ reqAgent[1].maxRedirects = 2
    /\ Len(received[1]) = 3
    /\ \A i \in 1..3 : IsRedirect(received[1][i]) /\ HasLocation(received[1][i])
    /\ callState[1] = "rejected"
    /\ Len(sent[1]) = 3

\* The call's promise is the executor's: a POST, PUT, PATCH or DELETE, or a
\* GET that does not follow redirects.
ExecutorResult(c) == HasProfile(c) /\ (reqAgent[c].httpOptions.method # "GET" \/ ~reqAgent[c].followRedirects) /\ Len(received[c]) = 1

\* C14 as stated: a completed response is a success for a status in
\* [200,300), a redirect (location captured) for a status in (300,310], and
\* a failure for every other status, 300 included.
C14_ClassesWith300Failure ==
    ExecutorResult(1) =>
        LET status == received[1][1].statusCode
        IN /\ (status >= 200 /\ status < 300) => (callState[1] = "resolved" /\ result[1].class = "HTTPResponse")
           /\ (status > 300 /\ status <= 310) => (callState[1] = "resolved" /\ result[1].class = "HTTPRedirect" /\ result[1].location = (IF HasLocation(received[1][1]) THEN <<received[1][1].headers.location>> ELSE <<>>))
           /\ (status < 200 \/ status = 300 \/ status > 310) => (callState[1] = "rejected" /\ result[1].class = "HTTPError")

\* C14, amended: the redirect class is [300,310], 300 included; a failure
\* is every status below 200 or above 310.
C14_ClassesWith300Redirect ==
    ExecutorResult(1) =>
        LET status == received[1][1].statusCode
        IN /\ result[1].class \in {"HTTPResponse", "HTTPRedirect", "HTTPError"}
           /\ (status >= 200 /\ status < 300) => (callState[1] = "resolved" /\ result[1].class = "HTTPResponse")
           /\ (status >= 300 /\ status <= 310) => (callState[1] = "resolved" /\ result[1].class = "HTTPRedirect" /\ result[1].location = (IF HasLocation(received[1][1]) THEN <<received[1][1].headers.location>> ELSE <<>>))
           /\ (status < 200 \/ status > 310) => (callState[1] = "rejected" /\ result[1].class = "HTTPError")

\* A POST was answered 300 with a location header and resolved with a
\* redirect that carries the location.
C14_Witness ==
    /\ ExecutorResult(1) /\ reqAgent[1].httpOptions.method = "POST"
    /\ received[1][1].statusCode = 300 /\ HasLocation(received[1][1])
    /\ callState[1] = "resolved"
    /\ result[1].class = "HTTPRedirect"
    /\ result[1].location = <<RelNext>>

\* The bytes before chunk j of the chunks `data`.
RECURSIVE Offset(_, _)
Offset(data, j) == IF j = 1 THEN 0 ELSE Offset(data, j - 1) + Len(data[j - 1])

\* body is the chunks `data` one after the other.
IsBodyOf(body, data) ==
    /\ Len(body) = Offset(data, Len(data) + 1)
    /\ \A j \in 1..Len(data) : SubSeq(body, Offset(data, j) + 1, Offset(data, j) + Len(data[j])) = data[j]

\* The last response the call received.
LastResponse(c) == received[c][Len(received[c])]

\* C15: whatever the verb, a call whose last response is a success is
\* resolved with it and one whose last response is a failure is rejected
\* with the failure, which carries the response's status code, headers and
\* whole body; no call is resolved with a failure.
C15_SuccessResolvesFailureRejects ==
    /\ (HasProfile(1) /\ Len(received[1]) >= 1 /\ IsSuccess(LastResponse(1))) =>
           /\ callState[1] = "resolved"
           /\ result[1].class = "HTTPResponse"
           /\ result[1].statusCode = LastResponse(1).statusCode
           /\ result[1].headers = LastResponse(1).headers
           /\ IsBodyOf(result[1].body, LastResponse(1).data)
    /\ (HasProfile(1) /\ Len(received[1]) >= 1 /\ ~IsSuccess(LastResponse(1)) /\ ~IsRedirect(LastResponse(1))) =>
           /\ callState[1] = "rejected"
           /\ result[1].class = "HTTPError"
           /\ result[1].statusCode = LastResponse(1).statusCode
           /\ result[1].headers = LastResponse(1).headers
           /\ IsBodyOf(result[1].body, LastResponse(1).data)
    /\ callState[1] = "resolved" => result[1].class # "HTTPError"

\* A DELETE was answered 404 with a body of two chunks and was rejected
\* with the failure carrying the three bytes.
C15_Witness ==
    /\ HasProfile(1) /\ reqAgent[1].httpOptions.method = "DELETE"
    /\ Len(received[1]) = 1 /\ received[1][1].statusCode = 404
    /\ Len(received[1][1].data) = 2
    /\ callState[1] = "rejected"
    /\ result[1].statusCode = 404
    /\ result[1].body = <<"n", "o", "t">>

\* The step is a call of a verb (GET included) with these arguments.
CallStep(c, url, options) == Get(c, url, options) \/ \E method \in Methods : Verb(c, method, url, options)

\* C16: a call of any verb whose options argument is an array, a number or
\* a string fails with the 'options parameter must be an object' error and
\* sends no request.
C16_NonMappingOptionsAreInvalidOptions ==
    [][\A url \in {UriLocalTls, UriLocal}, options \in NonMappings :
           CallStep(1, url, options) =>
               /\ callState'[1] \in {"rejected", "thrown"}
               /\ result'[1].class = "HTTPError"
               /\ result'[1].message = "options parameter must be an object"
               /\ sent'[1] = <<>>]_vars

\* C17: createAgent called with a URI that does not begin with 'http'
\* (ftp, ssh, irc, foo, gopher) throws the 'Unsupported protocol' error; no
\* profile is returned and the pool is not touched.
C17_UnsupportedProtocolThrows ==
    [][\A c \in Calls, uri \in UnsupportedUris, options \in CreateOptions :
           Create(c, uri, options) =>
               /\ callState'[c] = "thrown"
               /\ result'[c].class = "HTTPError"
               /\ result'[c].message = "Unsupported protocol"
               /\ reqAgent'[c].http = "undefined"
               /\ cachedAgents' = cachedAgents /\ allocated' = allocated]_vars

\* One create threw 'Unsupported protocol' and left no profile, after
\* another one had made a profile and a pool entry.
C17_Witness ==
    \E c, d \in Calls :
        /\ callState[c] = "thrown" /\ result[c].message = "Unsupported protocol" /\ ~HasProfile(c)
        /\ Pooled(d) /\ Cardinality(DOMAIN cachedAgents) = 1

\* C18: for each verb, a failure raised while the profile is built (options
\* that are not an object, an unsupported protocol, a URL without a host)
\* leaves the call with a rejected promise, never with an exception thrown
\* out of the verb function.
C18_BuildErrorsRejectThePromise ==
    [][\A url \in VerbUris, options \in {NoOptions, NotAnObject} :
           (CallStep(1, url, options) /\ (url \in {UriFtp, UriNoHost} \/ options = NotAnObject)) =>
               (callState'[1] = "rejected" /\ result'[1].class = "HTTPError" /\ sent'[1] = <<>>)]_vars

\* A requested maxRedirects is numeric when it is a number or a string of
\* one or more decimal digits; its value.
IsNumeric(value) == "num" \in DOMAIN value \/ ("str" \in DOMAIN value /\ value.str # <<>> /\ IsDigits(value.str))
NumericValue(value) == IF "num" \in DOMAIN value THEN value.num ELSE ParseDigits(value.str, 0)

\* C19: after create the profile's maxRedirects is 5 when options.maxRedirects
\* is absent or not numeric, the requested value when that is a number below
\* 15, and 15 when it is 15 or more; maxRedirects never exceeds 15.
C19_MaxRedirectsDefaultAndClamp ==
    [][/\ \A c \in Calls, uri \in {UriLocalTls, UriLocal}, options \in RedirectOptions :
              Create(c, uri, options) =>
                  reqAgent'[c].maxRedirects =
                      IF ~Has(options, "maxRedirects") \/ ~IsNumeric(options.own.maxRedirects)
                      THEN 5
                      ELSE IF NumericValue(options.own.maxRedirects) < 15
                           THEN NumericValue(options.own.maxRedirects)
                           ELSE 15
       /\ \A c \in Calls : reqAgent'[c].maxRedirects <= 15]_vars

\* C20: a timeout on an in-flight request, before the response or while the
\* response is being received, aborts it and the call's promise is rejected
\* with the HTTPError of a transport failure; it is not left pending.
C20_TimeoutRejectsWithTransportError ==
    [][Timeout(1) => (callState'[1] = "rejected" /\ result'[1].class = "HTTPError" /\ result'[1].message = "socket hang up")]_vars

C22_EndOfRequestAfterBodyOnce ==
    [][/\ \A method \in httpDataMethods, data \in Bodies :
              (Truthy(data) /\ DataRequest(1, method, UriLocalTls, data, NoOptions)) =>
                  (Len(sent'[1]) = 1 /\ outgoing'[1][1].data = data /\ outgoing'[1][1].ends = 0)
       /\ \A i \in 1..Len(outgoing'[1]) :
              LET o == outgoing'[1][i]
              IN /\ o.ends <= 1
                 /\ IF Truthy(o.data) /\ sent'[1][i].method \in httpDataMethods
                    THEN o.ends = 1 => (o.phase = "done" /\ o.written = o.data.bytes)
                    ELSE o.written = <<>> /\ o.ends = 1]_vars

\* C23: POST, PUT or PATCH with a streaming body does not fail before a
\* request is sent: the request is made, without a length header, and the
\* stream is forwarded to it; with a string or Buffer body the length header
\* is the size of the body.
C23_StreamBodyIsForwarded ==
    [][\A method \in httpDataMethods, data \in Bodies :
           (Truthy(data) /\ DataRequest(1, method, UriLocalTls, data, NoOptions)) =>
               /\ callState'[1] = "pending"
               /\ Len(sent'[1]) = 1
               /\ IF isStream(data)
                  THEN "Content-Length" \notin DOMAIN reqAgent'[1].httpOptions.headers
                  ELSE reqAgent'[1].httpOptions.headers["Content-Length"] = Len(data.bytes)]_vars

\* No run of two or more '/' in a path.
NoRuns(path) == \A i \in 1..(Len(path) - 1) : ~(path[i] = "/" /\ path[i + 1] = "/")

\* C24: update(oldURL, newURL) rewrites the request parameters to the new
\* target: its hostname and protocol, its path and query with the runs of
\* '/' collapsed, and its explicit port or else 443 for https and 80
\* otherwise.  A profile's port is never empty.
C24_UpdateRewritesRequestParams ==
    [][/\ \A newUrl \in ProfileLocations :
              Update(1, newUrl) =>
                  LET newURL == toURLs(callUrl[1], newUrl)[2]
                      params == reqAgent'[1].httpOptions
                  IN /\ params.hostname = newURL.hostname
                     /\ params.protocol = newURL.protocol
                     /\ params.path = normalize(newURL.pathname \o newURL.search)
                     /\ NoRuns(params.path)
                     /\ PortNumber(params.port) = IF newURL.port # <<>> THEN ParseDigits(newURL.port, 0) ELSE IF newURL.protocol = HTTPS \o <<":">> THEN 443 ELSE 80
       /\ HasProfile(1)' => PortNumber(reqAgent'[1].httpOptions.port) > 0]_vars

\* A profile of https://localhost was updated to http://example.net:8080
\* with a path of runs and a query, and then to a path on it.
C24_Witness ==
    /\ callState[1] = "ready"
    /\ callUrl[1].hostname = EXAMPLE
    /\ callUrl[1].pathname = PathNext
    /\ reqAgent[1].httpOptions.path = PathNext
    /\ PortOf(1) = 8080
    /\ reqAgent[1].http = "http"
    /\ Cardinality(DOMAIN cachedAgents) = 2

\* C25: create(uri, options) fills the request parameters: hostname and
\* protocol of the URI, its explicit port or else 443 for https and 80 for
\* http, its path (and query) with the runs of '/' collapsed, and
\* options.method when given, otherwise GET.
C25_CreateFillsRequestParams ==
    [][\A uri \in ProfileUris, options \in CreateProfileOptions :
           Create(1, uri, options) =>
               LET params == reqAgent'[1].httpOptions
               IN /\ callState'[1] = "ready"
                  /\ params.hostname = uri.host
                  /\ params.protocol = uri.scheme \o <<":">>
                  /\ params.port = NumPort(IF uri.port # <<>> THEN ParseDigits(uri.port, 0) ELSE IF uri.scheme = HTTPS THEN 443 ELSE 80)
                  /\ params.path = normalize(uri.path \o uri.search)
                  /\ NoRuns(params.path)
                  /\ params.method = IF Has(options, "method") THEN options.own.method ELSE "GET"]_vars

\* http://example.net:8080/a///b//?q was created with method FOO.
C25_Witness ==
    /\ callState[1] = "ready"
    /\ callUrl[1] = ParseURL(UriExample8080)
    /\ reqAgent[1].httpOptions.method = "FOO"
    /\ reqAgent[1].httpOptions.port = NumPort(8080)
    /\ reqAgent[1].httpOptions.path = <<"/", "a", "/", "b", "/", "?", "q">>

\* The headers the caller gave to create, none when it gave none.
CallerSupplied(options) == IF Has(options, "headers") THEN options.own.headers ELSE [h \in {} |-> ""]
DefaultEncoding == RequestAgent.httpOptions.headers["Accept-Encoding"]

\* C26 as stated: the headers of every profile are 'Accept-Encoding: gzip,
\* deflate, identity' and all the caller's headers, names as given, after
\* create and after every update.
C26_DefaultEncodingAndCallerHeaders ==
    [][/\ \A uri \in ProfileUris, options \in CreateProfileOptions :
              Create(1, uri, options) =>
                  LET headers == reqAgent'[1].httpOptions.headers
                  IN /\ DOMAIN headers = {"Accept-Encoding"} \cup DOMAIN CallerSupplied(options)
                     /\ headers["Accept-Encoding"] = DefaultEncoding
                     /\ \A h \in DOMAIN CallerSupplied(options) : headers[h] = CallerSupplied(options)[h]
       /\ \A newUrl \in ProfileLocations :
              Update(1, newUrl) => reqAgent'[1].httpOptions.headers = reqAgent[1].httpOptions.headers]_vars

\* C26 amended: the headers are all the caller's headers, names and values
\* as given, and 'Accept-Encoding: gzip, deflate, identity' unless the
\* caller gave a header of exactly that name; updates leave them alone.
C26_CallerHeadersOverDefaultEncoding ==
    [][/\ \A uri \in ProfileUris, options \in CreateProfileOptions :
              Create(1, uri, options) =>
                  LET headers == reqAgent'[1].httpOptions.headers
                  IN /\ DOMAIN headers = {"Accept-Encoding"} \cup DOMAIN CallerSupplied(options)
                     /\ "Accept-Encoding" \notin DOMAIN CallerSupplied(options) => headers["Accept-Encoding"] = DefaultEncoding
                     /\ \A h \in DOMAIN CallerSupplied(options) : headers[h] = CallerSupplied(options)[h]
       /\ \A newUrl \in ProfileLocations :
              Update(1, newUrl) => reqAgent'[1].httpOptions.headers = reqAgent[1].httpOptions.headers]_vars

\* A profile created with the headers foo and X-Foo has them and the
\* default encoding after an update to a path.
C26_Witness ==
    /\ callState[1] = "ready"
    /\ callUrl[1].pathname = PathNext
    /\ reqAgent[1].httpOptions.headers = [h \in {"Accept-Encoding", "foo", "X-Foo"} |-> IF h = "foo" THEN "bar" ELSE IF h = "X-Foo" THEN "baz" ELSE "gzip, deflate, identity"]

\* The six option keys setAgentOptions knows.
Recognized == {"keepAlive", "keepAliveMsecs", "maxSockets", "maxFreeSockets", "rejectUnauthorized", "secureProtocol"}

\* C27: pool tuning defaults to keepAlive true, keepAliveMsecs 1000,
\* maxSockets 2048, maxFreeSockets 256, rejectUnauthorized true; create
\* overrides exactly the recognized keys the options contain, leaves the
\* others at their defaults and copies no other key of the options.
C27_PoolTuningDefaultsAndOverrides ==
    [][\A uri \in ProfileUris, options \in CreateProfileOptions :
           Create(1, uri, options) =>
               LET tuning == reqAgent'[1].agentOptions
                   defaults == [keepAlive |-> TRUE, keepAliveMsecs |-> 1000, maxSockets |-> 2048, maxFreeSockets |-> 256, rejectUnauthorized |-> TRUE]
               IN /\ DOMAIN tuning = DOMAIN defaults \cup (Recognized \cap DOMAIN options.own)
                  /\ \A k \in DOMAIN tuning : tuning[k] = IF k \in DOMAIN options.own THEN options.own[k] ELSE defaults[k]]_vars

\* A profile created with secureProtocol, timeout and foo has the first
\* and neither of the others; its other tuning is the default.
C27_Witness ==
    /\ callState[1] = "ready"
    /\ DOMAIN reqAgent[1].agentOptions = Recognized
    /\ reqAgent[1].agentOptions.secureProtocol = <<"T", "L", "S">>
    /\ reqAgent[1].agentOptions.maxSockets = 2048

\* p without every '/' that follows a '/'.
Collapsed(p) ==
    LET kept == SelectSeq([i \in 1..Len(p) |-> i], LAMBDA i : ~(i > 1 /\ p[i] = "/" /\ p[i - 1] = "/"))
    IN [j \in 1..Len(kept) |-> p[kept[j]]]

\* C28: normalize is total and idempotent; its result has no run of two or
\* more '/', and is its argument without the '/' that follow a '/', every
\* other character in place.  So it is for every string and for the path of
\* every profile.
C28_NormalizeIdempotent ==
    /\ \A p \in Strings(MaxPathLen) :
           /\ normalize(normalize(p)) = normalize(p)
           /\ NoRuns(normalize(p))
           /\ normalize(p) = Collapsed(p)
    /\ HasProfile(1) =>
           /\ reqAgent[1].httpOptions.path = Collapsed(callUrl[1].pathname)
           /\ normalize(reqAgent[1].httpOptions.path) = reqAgent[1].httpOptions.path
           /\ NoRuns(reqAgent[1].httpOptions.path)

\* The profile was updated to the path //a// and holds /a/.
C28_Witness ==
    /\ callState[1] = "ready"
    /\ callUrl[1].pathname = <<"/", "/", "a", "/", "/">>
    /\ reqAgent[1].httpOptions.path = <<"/", "a", "/">>

\* C29: each verb function forces its method, whatever options.method the
\* caller gave: every request of a GET call, the first and those of the
\* redirect hops, has method GET, and the request of POST, PUT, PATCH and
\* DELETE has the verb's.
C29_VerbForcesMethod ==
    [][/\ \A url \in VerbUris, options \in VerbOptions :
              Get(1, url, options) => \A i \in 1..Len(sent'[1]) : sent'[1][i].method = "GET"
       /\ \A method \in Methods, url \in VerbUris, options \in VerbOptions :
              Verb(1, method, url, options) => \A i \in 1..Len(sent'[1]) : sent'[1][i].method = method
       /\ \A i \in 1..Len(sent'[1]) : sent'[1][i].method = sent'[1][1].method /\ reqAgent'[1].httpOptions.method = sent'[1][1].method]_vars

\* A GET called with options.method DELETE went through a redirect hop:
\* both its requests were GETs.
C29_Witness ==
    /\ reqAgent[1].maxRedirects = 2
    /\ Len(sent[1]) = 2
    /\ sent[1][1].method = "GET"
    /\ sent[1][2].method = "GET"

\* What a call owns: its profile (request parameters, headers, redirect
\* policy), the URL it is at, its hop count, its requests and its outcome.
Owned(c) == <<reqAgent[c], callUrl[c], followed[c], sent[c], received[c], callState[c], result[c]>>

\* A step of call c: the call is made, or a response is delivered to it and
\* its redirect chain goes on.
StepOf(c) ==
    \/ \E url \in {UriLocalTls, UriLocal} : Get(c, url, NoOptions)
    \/ \E response \in FewResponses : Respond(c, response)

\* C30: two calls in flight are independent but for the pool: under every
\* interleaving, a step of one call, the update of its redirect chain
\* included, changes nothing that the other call owns.
C30_CallsAreIndependent ==
    [][\A c \in Calls : \A d \in Calls \ {c} : StepOf(c) => Owned(d)' = Owned(d)]_vars

\* Both calls were redirected once, to different hosts, one after the other
\* was; both are in flight.
C30_Witness ==
    /\ callState[1] = "pending" /\ callState[2] = "pending"
    /\ followed[1] = 1 /\ followed[2] = 1
    /\ reqAgent[1].httpOptions.hostname = EXAMPLE
    /\ reqAgent[2].httpOptions.hostname = LOCALHOST
    /\ PortOf(2) = 8443

\* The content encoding the last response of the call names, if any.
EncodingOf(c) == IF "content-encoding" \in DOMAIN LastResponse(c).headers THEN LastResponse(c).headers["content-encoding"] ELSE "undefined"

\* C31: the body a call settles with is the received chunks one after the
\* other in arrival order, when the response's content-encoding is neither
\* 'gzip' nor 'deflate' (absent included); for 'gzip' and 'deflate' it is the
\* payload whose coding by that codec, byte for byte, is those received
\* chunks one after the other.
C31_BodyDecodedByContentEncoding ==
    (callState[1] \in {"resolved", "rejected"} /\ Len(received[1]) >= 1 /\ "body" \in DOMAIN result[1]) =>
        LET body == result[1].body
            data == LastResponse(1).data
        IN CASE EncodingOf(1) = "gzip" -> IsBodyOf([i \in 1..Len(body) |-> gzip(body[i])], data)
             [] EncodingOf(1) = "deflate" -> IsBodyOf([i \in 1..Len(body) |-> deflate(body[i])], data)
             [] OTHER -> IsBodyOf(body, data)

\* A failure whose two gzip-coded chunks were delivered decoded and in
\* arrival order.
C31_Witness ==
    /\ callState[1] = "rejected" /\ Len(received[1]) = 1
    /\ EncodingOf(1) = "gzip" /\ Len(LastResponse(1).data) = 2
    /\ "body" \in DOMAIN result[1] /\ result[1].body = <<"n", "o", "t">>

\* The orders in which the keys of an object with these entries can have
\* been inserted.
Orderings(entries) == {[i \in 1..Len(entries) |-> entries[p[i]]] : p \in Permutations(1..Len(entries))}

\* C32: the pool key is a function of scheme, host, port and pool options
\* that does not depend on the order the pool-option keys were inserted in:
\* all orderings of the same entries give one key, for explicit hosts and
\* ports and, in every state, for the profile's own pool options, whose key
\* in any ordering is the key the profile's agent is pooled under.
C32_KeyIgnoresInsertionOrder ==
    /\ \A protocol \in {HTTP, HTTPS}, httpOptions \in {[host |-> LOCALHOST, port |-> NumPort(443)], [port |-> StrPort(Port8443)]} :
           \A first, second \in Orderings(ObjectEntries([keepAlive |-> FALSE, maxSockets |-> 10, secureProtocol |-> <<"T", "L", "S">>])) :
               optionsToHashEntries(first, httpOptions, protocol) = optionsToHashEntries(second, httpOptions, protocol)
    /\ (Pooled(1) /\ ResolvedForCurrent(1)) =>
           \A entries \in Orderings(ObjectEntries(reqAgent[1].agentOptions)) :
               /\ optionsToHashEntries(entries, [port |-> NumPort(resolvedFor[1][3])], IF StartsWith(resolvedFor[1][1], HTTPS) THEN HTTPS ELSE HTTP) = KeyOf(1)
               /\ KeyOf(1) \in DOMAIN cachedAgents
               /\ cachedAgents[KeyOf(1)].agent = AgentOf(1)

\* A profile with six pool options, secureProtocol inserted last, holds a
\* pooled agent.
C32_Witness ==
    /\ Pooled(1) /\ ResolvedForCurrent(1) /\ AgentOf(1) # NoAgent
    /\ Len(ObjectEntries(reqAgent[1].agentOptions)) = 6
    /\ ObjectEntries(reqAgent[1].agentOptions)[6][1] = "secureProtocol"

\* C33: when a GET that follows redirects receives, with its hop count
\* already at maxRedirects or more, a redirect that has no location header,
\* that step rejects the call with the 'Maximum number of redirects reached'
\* error (it does not settle it for the missing location) and sends nothing.
C33_LimitCheckedBeforeLocation ==
    [][\A response \in Responses :
           (/\ Respond(1, response)
            /\ reqAgent[1].followRedirects
            /\ IsRedirect(response) /\ ~HasLocation(response)
            /\ followed[1] >= reqAgent[1].maxRedirects)
               => /\ callState'[1] = "rejected"
                  /\ result'[1].class = "HTTPError"
                  /\ result'[1].message = "Maximum number of redirects reached"
                  /\ result'[1] # Undefined
                  /\ UNCHANGED <<sent, reqAgent, followed>>]_vars

\* maxRedirects is 1; a redirect with a Location was followed and the second
\* answer, a redirect without one, rejected the call at the hop limit.
C33_Witness ==
    /\ HasProfile(1) /\ reqAgent[1].followRedirects /\ reqAgent[1].maxRedirects = 1
    /\ Len(received[1]) = 2 /\ followed[1] = 1
    /\ IsRedirect(received[1][1]) /\ HasLocation(received[1][1])
    /\ IsRedirect(received[1][2]) /\ ~HasLocation(received[1][2])
    /\ callState[1] = "rejected"
    /\ result[1].message = "Maximum number of redirects reached"

\* C34: each hop of a GET's redirect chain resolves the Location against
\* the URL of the hop that answered it: an absolute Location gives the new
\* URL its own scheme, host and port, a relative one leaves the scheme, host
\* and port of that hop (not of the original request); the next request goes
\* to the resolved URL, which is the base of the hop after, and update
\* compares the resolved URL with that hop's (a hop within one origin does
\* no pool lookup).
C34_LocationResolvedAgainstPreviousHop ==
    [][\A response \in Responses :
           (Respond(1, response) /\ followed'[1] = followed[1] + 1) =>
               LET location == response.headers.location
                   base == callUrl[1]
                   resolved == callUrl'[1]
               IN /\ IF location.scheme # <<>>
                     THEN /\ resolved.protocol = location.scheme \o <<":">>
                          /\ resolved.hostname = location.host
                          /\ resolved.port = (IF location.port = DefaultPortOf(location.scheme) THEN <<>> ELSE location.port)
                     ELSE /\ resolved.protocol = base.protocol
                          /\ resolved.hostname = base.hostname
                          /\ resolved.port = base.port
                  /\ resolved.pathname = (IF location.path = <<>> THEN (IF location.scheme # <<>> THEN <<"/">> ELSE base.pathname) ELSE location.path)
                  /\ Len(sent'[1]) = Len(sent[1]) + 1
                  /\ SentTo(sent'[1][Len(sent'[1])], resolved)
                  /\ (resolved.protocol = base.protocol /\ resolved.hostname = base.hostname)
                         => (cachedAgents' = cachedAgents /\ AgentOf(1)' = AgentOf(1) /\ resolvedFor' = resolvedFor)
                  /\ ((resolved.protocol # base.protocol \/ resolved.hostname # base.hostname) /\ ~reqAgent[1].newAgent)
                         => resolvedFor'[1] = <<resolved.protocol, resolved.hostname, sent'[1][Len(sent'[1])].port>>]_vars

\* A GET to localhost was redirected to https://example.net and from there
\* to the path /n: it is at https://example.net/n, its third request
\* pending, and the second hop did no pool lookup.
C34_Witness ==
    /\ callState[1] = "pending" /\ followed[1] = 2 /\ Len(sent[1]) = 3
    /\ received[1] = <<Moved(UriExampleTls), Moved(RelNext)>>
    /\ sent[1][1].hostname = LOCALHOST
    /\ callUrl[1].hostname = EXAMPLE /\ callUrl[1].pathname = PathNext
    /\ sent[1][3].hostname = EXAMPLE /\ sent[1][3].path = PathNext
    /\ resolvedFor[1][2] = EXAMPLE

\* C35: a GET whose profile follows redirects is resolved with a success
\* only: never with a redirect, a failure or undefined.
C35_FollowingGetResolvesWithSuccessOnly ==
    (HasProfile(1) /\ reqAgent[1].followRedirects /\ callState[1] = "resolved")
        => (result[1].class = "HTTPResponse" /\ result[1] # Undefined)

\* What does hold: such a GET is never resolved with a redirect or a failure.
C35_NeverResolvesWithRedirectOrFailure ==
    (HasProfile(1) /\ reqAgent[1].followRedirects /\ callState[1] = "resolved")
        => result[1].class \in {"HTTPResponse", "undefined"}

\* C36: in every state after create and after any updates, the profile's
\* transport module is https when its protocol is 'https:' and http when it
\* is not, and an agent attached to the profile was constructed as an
\* https.Agent in the first case and as an http.Agent in the second.
C36_ModuleAndAgentMatchProtocol ==
    HasProfile(1) =>
        /\ reqAgent[1].http = (IF ProtocolOf(1) = HTTPS \o <<":">> THEN "https" ELSE "http")
        /\ ProtocolOf(1) = callUrl[1].protocol
        /\ AgentOf(1) # NoAgent =>
               /\ AgentOf(1) \in 1..Len(allocated)
               /\ allocated[AgentOf(1)].secure = (ProtocolOf(1) = HTTPS \o <<":">>)

\* A profile that an update took to the path /n is at an http URL with the
\* http module and an http.Agent, while the first agent constructed, still
\* pooled, is an https.Agent.
C36_Witness ==
    /\ Pooled(1) /\ AgentOf(1) # NoAgent
    /\ callUrl[1].pathname = PathNext
    /\ ProtocolOf(1) = HTTP \o <<":">> /\ reqAgent[1].http = "http"
    /\ ~allocated[AgentOf(1)].secure
    /\ allocated[1].secure /\ AgentOf(1) # 1

\* The request parameters update may write.
Rewritten == {"hostname", "port", "path", "protocol", "agent"}

\* C37: an update, to the same origin or to another, leaves the profile's
\* method, headers (the caller's credentials among them), CA material, pool
\* options, followRedirects, maxRedirects and newAgent as they were: of the
\* request parameters only hostname, port, path, protocol and agent can
\* differ, and of the rest of the profile only the transport module.
C37_UpdateKeepsTheRestOfTheProfile ==
    [][\A newUrl \in ProfileLocations :
           Update(1, newUrl) =>
               /\ DOMAIN reqAgent'[1].httpOptions = DOMAIN reqAgent[1].httpOptions
               /\ \A k \in (DOMAIN reqAgent[1].httpOptions) \ Rewritten : reqAgent'[1].httpOptions[k] = reqAgent[1].httpOptions[k]
               /\ {"method", "headers"} \subseteq (DOMAIN reqAgent[1].httpOptions) \ Rewritten
               /\ reqAgent'[1].agentOptions = reqAgent[1].agentOptions
               /\ reqAgent'[1].followRedirects = reqAgent[1].followRedirects
               /\ reqAgent'[1].maxRedirects = reqAgent[1].maxRedirects
               /\ reqAgent'[1].newAgent = reqAgent[1].newAgent]_vars

\* A profile created with credentials, CA material, a method and a redirect
\* policy of the caller's was updated to another origin, https://example.net,
\* and still has them all.
C37_Witness ==
    /\ callState[1] = "ready"
    /\ callUrl[1].protocol = HTTPS \o <<":">> /\ callUrl[1].hostname = EXAMPLE
    /\ HostnameOf(1) = EXAMPLE
    /\ "Authorization" \in DOMAIN reqAgent[1].httpOptions.headers
    /\ reqAgent[1].httpOptions.headers["Authorization"] = Credentials["Authorization"]
    /\ "ca" \in DOMAIN reqAgent[1].httpOptions /\ reqAgent[1].httpOptions.ca = "pem"
    /\ reqAgent[1].httpOptions.method = "FOO"
    /\ ~reqAgent[1].followRedirects /\ reqAgent[1].maxRedirects = 2
    /\ reqAgent[1].agentOptions.maxSockets = 10

\* C38: a create that fails, for options that are no plain object, for a URI
\* that does not start with 'http' or for one the URL parser rejects, throws
\* and leaves the pool as it was: no entry added, none changed, no agent
\* constructed.
C38_FailedCreateLeavesPool ==
    [][\A c \in Calls, uri \in {UriLocalTls, UriLocal} \cup FailingUris, options \in {NoOptions, Options([maxSockets |-> 10])} \cup NonMappings :
           (Create(c, uri, options) /\ (uri \in FailingUris \/ options \in NonMappings)) =>
               /\ callState'[c] = "thrown"
               /\ result'[c].class \in {"HTTPError", "TypeError"}
               /\ cachedAgents' = cachedAgents
               /\ allocated' = allocated
               /\ reqAgent'[c].http = "undefined"]_vars

\* One create pooled an agent at time 0 and another, of http://, threw the
\* URL parser's TypeError; at time 1 the pool holds that one entry, last
\* used at 0.
C38_Witness ==
    /\ callState[2] = "thrown" /\ result[2].class = "TypeError"
    /\ callState[1] = "ready" /\ Pooled(1)
    /\ now = 1
    /\ Cardinality(DOMAIN cachedAgents) = 1 /\ Len(allocated) = 1
    /\ cachedAgents[KeyOf(1)].lastUsed = 0

\* C39: a POST, PUT, PATCH or DELETE call that reached the transport has
\* sent exactly one request, has followed nothing, and its profile is as
\* create made it (update was not called), whatever was answered; a redirect
\* answered to it resolves the call with that redirect (status, headers,
\* location), whether followRedirects is true or false and whatever
\* maxRedirects is.
C39_DataVerbsNeverFollow ==
    (HasProfile(1) /\ reqAgent[1].httpOptions.method # "GET") =>
        /\ Len(sent[1]) = 1
        /\ followed[1] = 0
        /\ sent[1][1] = Request(reqAgent[1])
        /\ \E url \in VerbUris, options \in VerbOptions, method \in Methods :
               /\ isObject(options)
               /\ reqAgent[1] = createAgent([k \in {} |-> 0], <<>>, url, [options EXCEPT !.own = Put(@, "method", method)], 0).agent
               /\ callUrl[1] = ParseURL(url)
        /\ (Len(received[1]) >= 1 /\ IsRedirect(received[1][1])) =>
               /\ Len(received[1]) = 1
               /\ callState[1] = "resolved"
               /\ result[1].class = "HTTPRedirect"
               /\ result[1].statusCode = received[1][1].statusCode
               /\ result[1].headers = received[1][1].headers
               /\ result[1].location = (IF HasLocation(received[1][1]) THEN <<received[1][1].headers.location>> ELSE <<>>)

\* A POST with the default redirect policy (followRedirects true, hops
\* left) was answered 301 with the Location /n and is resolved with that
\* redirect; its one request went to /f/b.
C39_Witness ==
    /\ HasProfile(1) /\ reqAgent[1].httpOptions.method = "POST"
    /\ reqAgent[1].followRedirects /\ reqAgent[1].maxRedirects = defaultMaxRedirects
    /\ Len(received[1]) = 1 /\ received[1][1].statusCode = 301 /\ HasLocation(received[1][1])
    /\ callState[1] = "resolved"
    /\ result[1].class = "HTTPRedirect" /\ result[1].location = <<RelNext>>
    /\ Len(sent[1]) = 1 /\ sent[1][1].path = <<"/", "f", "/", "b">>

\* C40: create and update collapse the runs of '/' of the path component
\* only: the request path is the normalized pathname followed by the query
\* string of the URI, or of the resolved redirect target, character for
\* character.
C40_QueryCarriedUnchanged ==
    [][/\ \A uri \in ProfileUris, options \in CreateProfileOptions :
              Create(1, uri, options) =>
                  reqAgent'[1].httpOptions.path = normalize(ParseURL(uri).pathname) \o ParseURL(uri).search
       /\ \A newUrl \in ProfileLocations :
              Update(1, newUrl) =>
                  LET newURL == toURLs(callUrl[1], newUrl)[2]
                  IN reqAgent'[1].httpOptions.path = normalize(newURL.pathname) \o newURL.search]_vars

====
